---------------------------- MODULE Spec2Model ----------------------------
(***************************************************************************)
(* Model of the job/notification queue of the WhatsApp enrolment bot:      *)
(*   QueueManager   (class QueueManager: queues, progress, signals)        *)
(*   queueWorker.js (job loop, notification loop, supervisor, stopWorkers) *)
(*   admission      (handleConfirmation, POST /admin/create-groups)        *)
(*   client events  (index.js: 'ready', 'disconnected')                    *)
(*                                                                         *)
(* A JavaScript turn (the code between two awaits) is one atomic step.     *)
(* Every await is a position (pc) of the awaiting loop or call.            *)
(***************************************************************************)
EXTENDS Integers, Sequences, FiniteSets, Bags, TLC

(***************************************************************************)
(* Program constants (config.js, adminApi.js, queueWorker.js)              *)
(***************************************************************************)
MAX_RETRIES == 2
DOCUMENT_FAIL_THRESHOLD == 3
SHUTDOWN_TIMEOUT == 600000
WORKER_RESTART_DELAYS == <<5000, 10000, 20000, 40000, 60000>>
\* "if (Date.now() - lastSuccessTime > 60000)" in stopWorkers
RESET_WINDOW == 60000

(***************************************************************************)
(* Bounds of the model                                                     *)
(***************************************************************************)
MaxDocs == 2          \* document ids 1..MaxDocs
MaxTotal == 5         \* largest expectedTotal passed to initDocument
MaxInits == 2         \* initDocument calls in the QueueManager-level spec
MaxTracks == 5        \* trackJobCompletion calls in the QueueManager-level spec
MaxJobs == 3          \* jobs ever enqueued while the client stays connected
MaxLifeJobs == 2      \* jobs ever enqueued when the client may disconnect
MaxFaultJobs == 1     \* jobs ever enqueued when the job worker may crash
MaxNotifs == 2        \* notifications ever enqueued
MaxReady == 2         \* 'ready' events of the client
MaxCrashes == 2       \* injected worker crashes
MaxIdle == 1          \* idle periods longer than the reset window
MaxSmallTotal == 3    \* largest total where only whole totals are drawn
MaxMs == 4            \* largest small bound of a range, in milliseconds
MaxItems == 3         \* longest array passed to delayFromRange
RandomSteps == 16     \* Math.random() is one of 0/16, 1/16, ..., 15/16
MaxManyCrashes == 6   \* injected crashes where the delay table is walked through

DocIds == 1..MaxDocs

(***************************************************************************)
(* JavaScript numbers that reach initDocument.  handleConfirmation passes  *)
(* an array length; the admin endpoint passes Number(body.cantidad_grupos) *)
(* checked only for 0 < cantidad <= MAX_GROUPS, so it may be non-integral. *)
(* A number is represented by its count of halves: Num(2) = 4 is the       *)
(* number 2, and 5 is the number 2.5.                                      *)
(***************************************************************************)
Num(n) == 2 * n
IsIntegral(x) == x % 2 = 0
\* count === x, count <= x, count < x  for an integer count and a number x
NumEq(count, x) == Num(count) = x
NumLe(count, x) == Num(count) <= x
NumLt(count, x) == Num(count) < x
\* iterations of "for (let i = 0; i < x; i++)"
LoopCount(x) == (x + 1) \div 2

NoProgress == [total |-> 0, completed |-> 0, results |-> <<>>, failedCount |-> 0, absent |-> TRUE]
NoJob == [id |-> 0, type |-> "none", documentId |-> 0, subjectId |-> FALSE]
NoNotification == [id |-> 0, documentId |-> 0]
NoAdminRequest == [active |-> FALSE, batchId |-> 0, cantidad |-> 0, i |-> 0]
NoStop == [pc |-> "idle", calledAt |-> 0, due |-> 0]

JobIds == 1..MaxJobs
NotifIds == 1..MaxNotifs

VARIABLES
    \* QueueManager
    jobQueue,            \* this.jobQueue
    notificationQueue,   \* this.notificationQueue
    documentProgress,    \* this.documentProgress (Map), NoProgress = no key
    totalCompleted,      \* this.totalCompleted
    totalFailed,         \* this.totalFailed
    jobsProcessing,      \* this.jobsProcessing
    listeners,           \* listeners registered for each terminal signal
    pendingHandlers,     \* listener invocations awaiting client.getChatById
    \* queueWorker.js module state
    isJobWorkerRunning,
    isNotificationWorkerRunning,
    restartCount,
    lastSuccessTime,
    jobLoops,            \* bag of active jobWorkerLoop invocations
    notifLoops,          \* bag of active notificationWorkerLoop invocations
    restarts,            \* bag of restartWithBackoff calls awaiting their delay
    stop,                \* the stopWorkers call in progress
    \* environment
    client,              \* index.js: "initializing", "ready", "stopping"
    adminReq,            \* the POST /admin/create-groups request in progress
    now,                 \* Date.now(), milliseconds since module load
    \* history of what was asked and what happened
    emitted,             \* per document: signals emitted since its latest
                         \* initDocument, by kind
    emittedCount,        \* signals emitted so far, by kind
    lastSignal,          \* the latest emitted signal
    docEpoch,            \* per document: number of initDocument calls so far
    initTotal,           \* per document: total of the latest initDocument
    tracksSinceInit,     \* per document: trackJobCompletion calls since then
    lastTrack,           \* the latest trackJobCompletion call
    nextJobId,           \* ids of enqueued jobs are 1..nextJobId-1
    nextNotifId,
    dequeuedJobs,        \* ids returned by getNextJob, in order
    dequeuedNotifs,      \* ids returned by getNextNotification, in order
    startedJobs,         \* ids of jobs in the order their execution began
    lastDone,            \* the job that finished last: invocations, outcome
    notifLog,            \* per notification: delivery attempts
    lastStop,            \* how the latest stopWorkers call returned
    lastRestart,         \* the latest restartWithBackoff call
    docKind,             \* per document id: "none", "boleta" or "batch"
    readyCount, crashes, idleLeaps,
    lastDelay            \* the latest randomDelay / delayFromRange call

qmVars == <<jobQueue, notificationQueue, documentProgress, totalCompleted,
            totalFailed, jobsProcessing, listeners, pendingHandlers>>
workerVars == <<isJobWorkerRunning, isNotificationWorkerRunning, restartCount,
                lastSuccessTime, jobLoops, notifLoops, restarts, stop>>
envVars == <<client, adminReq, now>>
histVars == <<emitted, emittedCount, lastSignal, docEpoch, initTotal,
              tracksSinceInit, lastTrack, nextJobId, nextNotifId, dequeuedJobs,
              dequeuedNotifs, startedJobs, lastDone, notifLog, lastStop,
              lastRestart, docKind, readyCount, crashes, idleLeaps,
              lastDelay>>
vars == <<qmVars, workerVars, envVars, histVars>>

\* bags of loop invocations
BagAdd(B, e) == B (+) SetToBag({e})
BagRemove(B, e) == B (-) SetToBag({e})
BagOfN(e, n) == IF n = 0 THEN EmptyBag ELSE [x \in {e} |-> n]

(***************************************************************************)
(* QueueManager                                                            *)
(***************************************************************************)
NoneEmitted == [completed |-> 0, failed |-> 0]
HasProgress(d) == ~documentProgress[d].absent

\* fault variant: the element is put at the head, as Array.prototype.unshift does
PushFront(q, x) == <<x>> \o q

\* Array.prototype.push
Push(q, x) == Append(q, x)

\* addJob(job): this.jobQueue.push(job)
addJob(job) ==
    /\ jobQueue' = Push(jobQueue, job)

\* addNotification(notification): this.notificationQueue.push(notification)
addNotification(n) ==
    /\ notificationQueue' = Push(notificationQueue, n)

\* the queue after this.jobQueue.shift()
ShiftRest(q) == IF q = <<>> THEN q ELSE Tail(q)
\* fault variant: the newest element is taken, as Array.prototype.pop does
ShiftItemNewest(q) == q[Len(q)]

\* the value of this.jobQueue.shift() on a non-empty queue
ShiftItem(q) == Head(q)

\* fault variant: an existing record keeps its counters and results, only the
\* total is replaced
FreshProgressKeeps(old, total) ==
    IF old.absent
    THEN [total |-> total, completed |-> 0, results |-> <<>>,
          failedCount |-> 0, absent |-> FALSE]
    ELSE [old EXCEPT !.total = total]

\* lines 378-383: the object literal stored by initDocument; the record the
\* Map held before (old) is not read
FreshProgress(old, total) ==
    [total |-> total, completed |-> 0, results |-> <<>>,
     failedCount |-> 0, absent |-> FALSE]

\* initDocument(documentId, total): Map.set overwrites
initDocument(documentId, total) ==
    /\ documentProgress' = [documentProgress EXCEPT ![documentId] =
           FreshProgress(documentProgress[documentId], total)]
    /\ docEpoch' = [docEpoch EXCEPT ![documentId] = @ + 1]
    /\ initTotal' = [initTotal EXCEPT ![documentId] = total]
    /\ tracksSinceInit' = [tracksSinceInit EXCEPT ![documentId] = 0]
    /\ emitted' = [emitted EXCEPT ![documentId] = NoneEmitted]

\* fault variant: the outcome is put at the head of the list (unshift)
TrackedAtFront(progress, success) ==
    [progress EXCEPT !.completed = @ + 1,
                     !.results = <<success>> \o @,
                     !.failedCount = IF success THEN @ ELSE @ + 1]

\* fault variant: completed++ only for a successful job
TrackedOnlySuccess(progress, success) ==
    [progress EXCEPT !.completed = IF success THEN @ + 1 ELSE @,
                     !.results = Append(@, success),
                     !.failedCount = IF success THEN @ ELSE @ + 1]

\* progress after lines 400-405: completed++, results.push, failedCount++
Tracked(progress, success) ==
    [progress EXCEPT !.completed = @ + 1,
                     !.results = Append(@, success),
                     !.failedCount = IF success THEN @ ELSE @ + 1]

\* fault variant: the comparison is made as if before "progress.completed++"
IsFullOffByOne(progress) == NumEq(progress.completed + 1, progress.total)

\* if (progress.completed === progress.total)
IsFull(progress) == NumEq(progress.completed, progress.total)

\* fault variant: ">" in place of ">="
IsFailedStrict(progress) == progress.failedCount > DOCUMENT_FAIL_THRESHOLD

\* fault variant: a single failure marks the document failed
IsFailedOnAny(progress) == progress.failedCount >= 1

\* if (progress.failedCount >= DOCUMENT_FAIL_THRESHOLD)
IsFailed(progress) == progress.failedCount >= DOCUMENT_FAIL_THRESHOLD

\* fault variant: both branches emit "document:ready-to-notify"
SignalAlwaysReady(documentId, progress) ==
    [kind |-> "document:ready-to-notify",
     documentId |-> documentId,
     n |-> lastSignal.n + 1,
     results |-> progress.results,
     failedCount |-> progress.failedCount]

\* the signal emitted for a full document
Signal(documentId, progress) ==
    [kind |-> IF IsFailed(progress) THEN "document:failed"
                                    ELSE "document:ready-to-notify",
     documentId |-> documentId,
     n |-> lastSignal.n + 1,
     results |-> progress.results,
     failedCount |-> progress.failedCount]

\* this.emit(event, payload): every registered listener is invoked; each is
\* an async function that runs up to "await client.getChatById(userId)"
emit(signal) ==
    LET kind == IF signal.kind = "document:failed" THEN "failed" ELSE "completed"
    IN  /\ lastSignal' = signal
        /\ emitted' = [emitted EXCEPT ![signal.documentId][kind] = @ + 1]
        /\ emittedCount' = [emittedCount EXCEPT ![kind] = @ + 1]
        /\ pendingHandlers' = pendingHandlers (+)
               BagOfN([documentId |-> signal.documentId], listeners)

\* fault variant: the whole Map is cleared (documentProgress.clear())
DeletedAll(map, documentId) == [d \in DOMAIN map |-> NoProgress]

\* this.documentProgress.delete(documentId)
Deleted(map, documentId) == [map EXCEPT ![documentId] = NoProgress]

\* fault variant: the guard of lines 394-398 is left out
IsMissingNever(progress) == FALSE

\* if (!progress) { logger.warn(...); return; }
IsMissing(progress) == progress.absent

\* trackJobCompletion(documentId, result)
trackJobCompletion(documentId, success) ==
    LET progress == documentProgress[documentId]
        p2 == Tracked(progress, success)
    IN  /\ lastTrack' = [documentId |-> documentId, success |-> success,
                         found |-> ~progress.absent,
                         n |-> lastTrack.n + 1]
        /\ tracksSinceInit' = [tracksSinceInit EXCEPT ![documentId] = @ + 1]
        /\ UNCHANGED <<docEpoch, initTotal>>
        /\ IF IsMissing(progress)
           THEN UNCHANGED <<documentProgress, totalCompleted, totalFailed,
                            emitted, emittedCount, lastSignal, pendingHandlers>>
           ELSE IF IsFull(p2)
                THEN /\ totalFailed' = IF IsFailed(p2) THEN totalFailed + 1 ELSE totalFailed
                     /\ totalCompleted' = IF IsFailed(p2) THEN totalCompleted ELSE totalCompleted + 1
                     /\ emit(Signal(documentId, p2))
                     /\ documentProgress' = Deleted(documentProgress, documentId)
                ELSE /\ documentProgress' = [documentProgress EXCEPT ![documentId] = p2]
                     /\ UNCHANGED <<totalCompleted, totalFailed, emitted,
                                    emittedCount, lastSignal, pendingHandlers>>

\* the variables trackJobCompletion writes
trackVars == <<documentProgress, totalCompleted, totalFailed, emitted,
               emittedCount, lastSignal, pendingHandlers, lastTrack,
               tracksSinceInit, docEpoch, initTotal>>

(***************************************************************************)
(* Initial state: module load.  The QueueManager singleton is constructed, *)
(* no worker runs, the client is initializing.                             *)
(***************************************************************************)
\* how the latest stopWorkers call returned: none has returned yet
NoStopYet == [how |-> "none", settled |-> "none", waited |-> 0, remaining |-> 0]
\* the latest restartWithBackoff call: none was made yet
NoRestartYet == [n |-> 0, type |-> "none", delayMs |-> 0, crashedAt |-> 0,
                 upSince |-> 0, lastOk |-> 0, restartedAt |-> -1,
                 jobCrashes |-> 0, notifCrashes |-> 0, lastStart |-> -1]

\* a range argument: an array of numbers, or a bare number of milliseconds
Arr(items) == [kind |-> "array", items |-> items, ms |-> 0]
Number(ms) == [kind |-> "number", items |-> <<>>, ms |-> ms]
\* the latest pacer call: none was made yet
NoDelay == [via |-> "none", range |-> Number(0), random |-> FALSE,
            timer |-> Number(0)]

NoDone == [n |-> 0, id |-> 0, type |-> "none", invocations |-> 0,
           successAt |-> 0, success |-> FALSE, found |-> FALSE,
           failedDelta |-> 0, threw |-> 0, persisted |-> "none",
           stopped |-> FALSE]

Init ==
    /\ jobQueue = <<>>
    /\ notificationQueue = <<>>
    /\ documentProgress = [d \in DocIds |-> NoProgress]
    /\ totalCompleted = 0
    /\ totalFailed = 0
    /\ jobsProcessing = 0
    /\ listeners = 0
    /\ pendingHandlers = EmptyBag
    /\ isJobWorkerRunning = FALSE
    /\ isNotificationWorkerRunning = FALSE
    /\ restartCount = 0
    /\ lastSuccessTime = 0
    /\ jobLoops = EmptyBag
    /\ notifLoops = EmptyBag
    /\ restarts = EmptyBag
    /\ stop = NoStop
    /\ client = "initializing"
    /\ adminReq = NoAdminRequest
    /\ now = 0
    /\ emitted = [d \in DocIds |-> NoneEmitted]
    /\ emittedCount = NoneEmitted
    /\ lastSignal = [kind |-> "none", documentId |-> 0, n |-> 0,
                     results |-> <<>>, failedCount |-> 0]
    /\ docEpoch = [d \in DocIds |-> 0]
    /\ initTotal = [d \in DocIds |-> 0]
    /\ tracksSinceInit = [d \in DocIds |-> 0]
    /\ lastTrack = [documentId |-> 0, success |-> FALSE, found |-> FALSE, n |-> 0]
    /\ nextJobId = 1
    /\ nextNotifId = 1
    /\ dequeuedJobs = <<>>
    /\ dequeuedNotifs = <<>>
    /\ startedJobs = <<>>
    /\ lastDone = NoDone
    /\ notifLog = [n \in NotifIds |-> 0]
    /\ lastStop = NoStopYet
    /\ lastRestart = NoRestartYet
    /\ docKind = [d \in DocIds |-> "none"]
    /\ readyCount = 0
    /\ crashes = 0
    /\ idleLeaps = 0
    /\ lastDelay = NoDelay

(***************************************************************************)
(* QueueManager-level specification: initDocument and trackJobCompletion   *)
(* called in any order by any caller.                                      *)
(***************************************************************************)
TotalValues == 1..Num(MaxTotal)

SumOf(f) == LET RECURSIVE S(_)
                S(D) == IF D = {} THEN 0
                        ELSE LET d == CHOOSE x \in D : TRUE IN f[d] + S(D \ {d})
            IN S(DOMAIN f)

InitDocumentCall(totals) ==
    \E d \in DocIds, total \in totals :
        /\ SumOf(docEpoch) < MaxInits
        /\ initDocument(d, total)
        /\ UNCHANGED <<jobQueue, notificationQueue, totalCompleted, totalFailed,
                       jobsProcessing, listeners, pendingHandlers>>
        /\ UNCHANGED <<workerVars, envVars>>
        /\ UNCHANGED <<emittedCount, lastSignal, lastTrack, nextJobId,
                       nextNotifId, dequeuedJobs, dequeuedNotifs, startedJobs,
                       lastDone, notifLog, lastStop, lastRestart, docKind,
                       readyCount, crashes, idleLeaps, lastDelay>>

CallInitDocument == InitDocumentCall(TotalValues)

\* whole totals only
SmallTotals == {Num(n) : n \in 1..MaxSmallTotal}
CallInitDocumentSmall == InitDocumentCall(SmallTotals)

CallTrackJobCompletion ==
    \E d \in DocIds, success \in BOOLEAN :
        /\ lastTrack.n < MaxTracks
        /\ trackJobCompletion(d, success)
        /\ UNCHANGED <<jobQueue, notificationQueue, jobsProcessing, listeners>>
        /\ UNCHANGED <<workerVars, envVars>>
        /\ UNCHANGED <<nextJobId, nextNotifId, dequeuedJobs, dequeuedNotifs,
                       startedJobs, lastDone, notifLog, lastStop, lastRestart,
                       docKind, readyCount, crashes, idleLeaps, lastDelay>>

NextQM ==
    \/ CallInitDocument
    \/ CallTrackJobCompletion

SpecQM == Init /\ [][NextQM]_vars

(***************************************************************************)
(* Groups of variables, by the operation that writes them                  *)
(***************************************************************************)
docVars == <<documentProgress, docEpoch, initTotal, tracksSinceInit, emitted>>
sigVars == <<totalCompleted, totalFailed, emittedCount, lastSignal, lastTrack>>
runVars == <<jobLoops, jobsProcessing, dequeuedJobs, startedJobs>>
nrunVars == <<notifLoops, dequeuedNotifs, notifLog>>
flagVars == <<isJobWorkerRunning, isNotificationWorkerRunning>>
supVars == <<restarts, lastRestart, crashes>>
stopVars == <<stop, lastStop, client>>
boundVars == <<readyCount, idleLeaps, lastDelay>>

(***************************************************************************)
(* queueWorker.js: the job worker                                          *)
(* Positions of a jobWorkerLoop invocation are its awaits:                 *)
(*   "poll"          line 36   sleep QUEUE_CHECK_INTERVAL, queue was empty *)
(*   "createGroup"   line 52   await client.createGroup                    *)
(*   "paceCreate"    line 73   await delayFromRange(ENTRE_ADICIONES)       *)
(*   "agregarAGrupo" line 90   await agregarAGrupo                         *)
(*   "backoff"       line 100  await delayFromRange(DESPUES_ERROR)         *)
(*   "query"         line 127  await pool.query                            *)
(*   "pace"          line 161  await delayFromRange(ENTRE_ADICIONES)       *)
(***************************************************************************)
JobLoop(pc, job) ==
    [pc |-> pc, job |-> job, attempts |-> 0, success |-> FALSE,
     exito |-> FALSE,
     \* history: calls of the execution function for this job, and the number
     \* of the call that first returned success
     invocations |-> IF job.id = 0 THEN 0 ELSE 1, successAt |-> 0,
     \* history: how the latest call ended ("none", "ok", "fail", "throw")
     \* and how many calls threw
     last |-> "none", threw |-> 0,
     \* history: how the status update of the job ended ("none" while there
     \* was none, "ok", "failed")
     persisted |-> "none"]

\* "result.success" at line 160: result is what agregarAGrupo returned,
\* {exito, materia}, or the {exito: false, materia} of the inner catch; it
\* has no property "success", so the value is undefined
ResultSuccess(exito) == FALSE

\* fault variant: while (true)
WhileTrue(running) == TRUE

\* fault variant: a stopped worker goes on while something is queued
WhileRunningOrQueued(running) ==
    running \/ jobQueue # <<>> \/ notificationQueue # <<>>

\* the test of "while (isJobWorkerRunning)" (line 31) and of
\* "while (isNotificationWorkerRunning)" (line 184)
WhileRunning(running) == running

\* lines 31-42 and the call that follows: the loop from its "while" to its
\* next await.  rest: the other invocations; running: isJobWorkerRunning;
\* jp: this.jobsProcessing
jobWorkerLoop(rest, running, jp) ==
    IF ~WhileRunning(running)
    THEN /\ jobLoops' = rest
         /\ jobsProcessing' = jp
         /\ UNCHANGED <<jobQueue, dequeuedJobs, startedJobs>>
    ELSE IF jobQueue = <<>>
    THEN /\ jobLoops' = BagAdd(rest, JobLoop("poll", NoJob))
         /\ jobsProcessing' = jp
         /\ UNCHANGED <<jobQueue, dequeuedJobs, startedJobs>>
    ELSE LET job == ShiftItem(jobQueue)
         IN  /\ jobQueue' = ShiftRest(jobQueue)
             /\ dequeuedJobs' = Append(dequeuedJobs, job.id)
             /\ jobsProcessing' = 1
             /\ startedJobs' = Append(startedJobs, job.id)
             /\ jobLoops' = BagAdd(rest,
                    JobLoop(IF job.type = "create_group" THEN "createGroup"
                                                         ELSE "agregarAGrupo",
                            job))

\* by how much the tracking of this step raised failedCount of document d
FailedDelta(d) ==
    IF lastSignal'.n > lastSignal.n
    THEN lastSignal'.failedCount - documentProgress[d].failedCount
    ELSE documentProgress'[d].failedCount - documentProgress[d].failedCount

\* the record of a job whose outcome has just been tracked
Done(l, exito) ==
    [n |-> lastDone.n + 1, id |-> l.job.id, type |-> l.job.type,
     invocations |-> l.invocations, successAt |-> l.successAt,
     success |-> exito, found |-> HasProgress(l.job.documentId),
     failedDelta |-> FailedDelta(l.job.documentId), threw |-> l.threw,
     persisted |-> l.persisted,
     \* whether isJobWorkerRunning was false when the outcome was tracked
     stopped |-> ~isJobWorkerRunning]

\* fault variant: the outcome of a failed job is not tracked
JobFinishUntrackedFailure(l, rest) ==
    /\ IF l.exito
       THEN /\ trackJobCompletion(l.job.documentId, l.exito)
            /\ lastDone' = Done(l, l.exito)
       ELSE UNCHANGED <<trackVars, lastDone>>
    /\ lastSuccessTime' = now
    /\ jobWorkerLoop(rest, isJobWorkerRunning, 0)

\* lines 142-165: trackJobCompletion, the pacing, markJobCompleted,
\* lastSuccessTime, and on to the next iteration
JobFinish(l, rest) ==
    /\ trackJobCompletion(l.job.documentId, l.exito)
    /\ lastDone' = Done(l, l.exito)
    /\ IF ResultSuccess(l.exito)
       THEN /\ jobLoops' = BagAdd(rest, [l EXCEPT !.pc = "pace"])
            /\ UNCHANGED <<jobQueue, jobsProcessing, dequeuedJobs, startedJobs,
                           lastSuccessTime>>
       ELSE /\ lastSuccessTime' = now
            /\ jobWorkerLoop(rest, isJobWorkerRunning, 0)

\* lines 114-140: after the retry loop
AfterRetry(l, rest) ==
    IF l.job.subjectId
    THEN /\ jobLoops' = BagAdd(rest, [l EXCEPT !.pc = "query"])
         /\ UNCHANGED <<jobQueue, jobsProcessing, dequeuedJobs, startedJobs,
                        lastSuccessTime, lastDone, trackVars>>
    ELSE JobFinish(l, rest)

\* fault variant: the loop does not stop at a success
RetryAgainAlways(attempts, success) == attempts <= MAX_RETRIES

\* fault variant: "<" in place of "<="
RetryAgainStrict(attempts, success) == attempts < MAX_RETRIES /\ ~success

\* fault variant: the retry loop also stops when the worker is stopped
RetryAgainWhileRunning(attempts, success) ==
    attempts <= MAX_RETRIES /\ ~success /\ isJobWorkerRunning

\* while (attempts <= MAX_RETRIES && !success)
RetryAgain(attempts, success) == attempts <= MAX_RETRIES /\ ~success

\* if (!success && attempts < MAX_RETRIES): pause before the next attempt
PauseAfterFailure(attempts, success) == ~success /\ attempts < MAX_RETRIES

\* the loop re-enters its body: agregarAGrupo is invoked again
Reinvoke(l, rest) ==
    /\ jobLoops' = BagAdd(rest, [l EXCEPT !.pc = "agregarAGrupo",
                                         !.invocations = @ + 1])
    /\ UNCHANGED <<jobQueue, jobsProcessing, dequeuedJobs, startedJobs,
                   lastSuccessTime, lastDone, trackVars>>

\* fault variant: attempts++ is inside the try block and is skipped when the
\* call throws
AttemptedUnlessThrew(l) ==
    IF l.last = "throw" THEN l ELSE [l EXCEPT !.attempts = @ + 1]

\* line 111: attempts++ after the try/catch, however the call ended
Attempted(l) == [l EXCEPT !.attempts = @ + 1]

\* the bottom of the retry loop: attempts++ and the loop condition
RetryBottom(l, rest) ==
    LET l2 == Attempted(l)
    IN  IF RetryAgain(l2.attempts, l2.success)
        THEN Reinvoke(l2, rest)
        ELSE AfterRetry(l2, rest)

\* the poll sleep ends
PollWake ==
    \E l \in BagToSet(jobLoops) :
        /\ l.pc = "poll"
        /\ jobWorkerLoop(BagRemove(jobLoops, l), isJobWorkerRunning,
                         jobsProcessing)
        /\ UNCHANGED <<notificationQueue, listeners, trackVars, nrunVars,
                       flagVars, restartCount, lastSuccessTime, lastDone,
                       supVars, stopVars, adminReq, now, nextJobId,
                       nextNotifId, docKind, boundVars>>

\* lines 89-111: agregarAGrupo returns {exito: true}, returns {exito: false}
\* or throws
AgregarReturns ==
    \E l \in BagToSet(jobLoops), outcome \in {"ok", "fail", "throw"} :
        LET rest == BagRemove(jobLoops, l)
            exito == (outcome = "ok")
            \* success = result.exito; not assigned when the call throws
            l2 == [l EXCEPT !.exito = exito,
                            !.success = IF outcome = "throw" THEN @ ELSE exito,
                            !.successAt = IF exito /\ @ = 0 THEN l.invocations ELSE @,
                            !.last = outcome,
                            !.threw = IF outcome = "throw" THEN @ + 1 ELSE @]
        IN  /\ l.pc = "agregarAGrupo"
            /\ IF outcome # "throw" /\ PauseAfterFailure(l2.attempts, l2.success)
               THEN /\ jobLoops' = BagAdd(rest, [l2 EXCEPT !.pc = "backoff"])
                    /\ UNCHANGED <<jobQueue, jobsProcessing, dequeuedJobs,
                                   startedJobs, lastSuccessTime, lastDone,
                                   trackVars>>
               ELSE RetryBottom(l2, rest)
            /\ UNCHANGED <<notificationQueue, listeners, nrunVars, flagVars,
                           restartCount, supVars, stopVars, adminReq, now,
                           nextJobId, nextNotifId, docKind, boundVars>>

\* the DESPUES_ERROR pause ends
BackoffWake ==
    \E l \in BagToSet(jobLoops) :
        /\ l.pc = "backoff"
        /\ RetryBottom(l, BagRemove(jobLoops, l))
        /\ UNCHANGED <<notificationQueue, listeners, nrunVars, flagVars,
                       restartCount, supVars, stopVars, adminReq, now,
                       nextJobId, nextNotifId, docKind, boundVars>>

\* fault variant: a rejected status update turns the job into a failure
AfterQueryMarksFailed(l, ok) ==
    [l EXCEPT !.exito = @ /\ ok, !.persisted = IF ok THEN "ok" ELSE "failed"]

\* lines 126-139: the try/catch around pool.query; the catch only logs, result
\* is not touched
AfterQuery(l, ok) ==
    [l EXCEPT !.persisted = IF ok THEN "ok" ELSE "failed"]

\* lines 127-139: pool.query resolves, or rejects and the error is logged
QueryReturns ==
    \E l \in BagToSet(jobLoops), ok \in BOOLEAN :
        /\ l.pc = "query"
        /\ JobFinish(AfterQuery(l, ok), BagRemove(jobLoops, l))
        /\ UNCHANGED <<notificationQueue, listeners, nrunVars, flagVars,
                       restartCount, supVars, stopVars, adminReq, now,
                       nextJobId, nextNotifId, docKind, boundVars>>

\* lines 50-73: client.createGroup resolves or rejects; the outcome is tracked
CreateGroupReturns ==
    \E l \in BagToSet(jobLoops), ok \in BOOLEAN :
        LET l2 == [l EXCEPT !.pc = "paceCreate", !.exito = ok,
                            !.successAt = IF ok THEN 1 ELSE 0]
        IN  /\ l.pc = "createGroup"
            /\ trackJobCompletion(l.job.documentId, ok)
            /\ lastDone' = Done(l2, ok)
            /\ jobLoops' = BagAdd(BagRemove(jobLoops, l), l2)
            /\ UNCHANGED <<jobQueue, jobsProcessing, dequeuedJobs, startedJobs,
                           notificationQueue, listeners, nrunVars, flagVars,
                           restartCount, lastSuccessTime, supVars, stopVars,
                           adminReq, now, nextJobId, nextNotifId, docKind,
                           boundVars>>

\* lines 73-75: the pause ends; markJobCompleted; continue
PaceCreateWake ==
    \E l \in BagToSet(jobLoops) :
        /\ l.pc = "paceCreate"
        /\ jobWorkerLoop(BagRemove(jobLoops, l), isJobWorkerRunning, 0)
        /\ UNCHANGED <<notificationQueue, listeners, trackVars, nrunVars,
                       flagVars, restartCount, lastSuccessTime, lastDone,
                       supVars, stopVars, adminReq, now, nextJobId,
                       nextNotifId, docKind, boundVars>>

\* startJobWorker: lines 260-269
startJobWorker ==
    IF isJobWorkerRunning
    THEN UNCHANGED <<isJobWorkerRunning, jobQueue, runVars>>
    ELSE /\ isJobWorkerRunning' = TRUE
         /\ jobWorkerLoop(jobLoops, TRUE, jobsProcessing)

(***************************************************************************)
(* queueWorker.js: the notification worker                                 *)
(* Positions: "poll" (line 189), "sendMessage" (line 198), "pace" (215)    *)
(***************************************************************************)
NotifLoop(pc, notification) ==
    [pc |-> pc, notification |-> notification,
     \* history: whether chat.sendMessage resolved for this notification
     delivered |-> FALSE]

\* lines 184-198: from the "while" to the next await
notificationWorkerLoop(rest, running) ==
    IF ~WhileRunning(running)
    THEN /\ notifLoops' = rest
         /\ UNCHANGED <<notificationQueue, dequeuedNotifs, notifLog>>
    ELSE IF notificationQueue = <<>>
    THEN /\ notifLoops' = BagAdd(rest, NotifLoop("poll", NoNotification))
         /\ UNCHANGED <<notificationQueue, dequeuedNotifs, notifLog>>
    ELSE LET n == ShiftItem(notificationQueue)
         IN  /\ notificationQueue' = ShiftRest(notificationQueue)
             /\ dequeuedNotifs' = Append(dequeuedNotifs, n.id)
             /\ notifLog' = [notifLog EXCEPT ![n.id] = @ + 1]
             /\ notifLoops' = BagAdd(rest, NotifLoop("sendMessage", n))

\* fault variant: a notification whose send failed is put back on the queue
SendFailedRequeue(q, notification) == Append(q, notification)

\* lines 207-212: the catch of a failed send logs it; the queue is as it was
SendFailed(q, notification) == q

NotifPollWake ==
    \E l \in BagToSet(notifLoops) :
        /\ l.pc = "poll"
        /\ notificationWorkerLoop(BagRemove(notifLoops, l),
                                  isNotificationWorkerRunning)
        /\ UNCHANGED <<jobQueue, jobsProcessing, listeners, trackVars, runVars,
                       flagVars, restartCount, lastSuccessTime, supVars,
                       stopVars, adminReq, now, nextJobId, nextNotifId,
                       docKind, boundVars, lastDone>>

\* lines 197-215: chat.sendMessage resolves, or rejects and the notification
\* is discarded; then the NOTIFICATION_DELAYS pause
SendReturns ==
    \E l \in BagToSet(notifLoops), ok \in BOOLEAN :
        /\ l.pc = "sendMessage"
        /\ notifLoops' = BagAdd(BagRemove(notifLoops, l),
                                [l EXCEPT !.pc = "pace", !.delivered = ok])
        /\ notificationQueue' = IF ok THEN notificationQueue
                                 ELSE SendFailed(notificationQueue, l.notification)
        /\ UNCHANGED <<jobQueue, jobsProcessing, listeners,
                       trackVars, runVars, dequeuedNotifs, notifLog, flagVars,
                       restartCount, lastSuccessTime, supVars, stopVars,
                       adminReq, now, nextJobId, nextNotifId, docKind,
                       boundVars, lastDone>>

NotifPaceWake ==
    \E l \in BagToSet(notifLoops) :
        /\ l.pc = "pace"
        /\ notificationWorkerLoop(BagRemove(notifLoops, l),
                                  isNotificationWorkerRunning)
        /\ UNCHANGED <<jobQueue, jobsProcessing, listeners, trackVars, runVars,
                       flagVars, restartCount, lastSuccessTime, supVars,
                       stopVars, adminReq, now, nextJobId, nextNotifId,
                       docKind, boundVars, lastDone>>

\* startNotificationWorker: lines 281-290
startNotificationWorker ==
    IF isNotificationWorkerRunning
    THEN UNCHANGED <<isNotificationWorkerRunning, notificationQueue, nrunVars>>
    ELSE /\ isNotificationWorkerRunning' = TRUE
         /\ notificationWorkerLoop(notifLoops, TRUE)

(***************************************************************************)
(* index.js: the listeners of the terminal signals                         *)
(***************************************************************************)
\* client.getChatById resolves and the summary is enqueued, or it rejects
\* and the failure is logged
HandlerResolves ==
    \E h \in BagToSet(pendingHandlers), ok \in BOOLEAN :
        /\ ok => nextNotifId <= MaxNotifs
        /\ pendingHandlers' = BagRemove(pendingHandlers, h)
        /\ IF ok
           THEN /\ addNotification([id |-> nextNotifId, documentId |-> h.documentId])
                /\ nextNotifId' = nextNotifId + 1
           ELSE UNCHANGED <<notificationQueue, nextNotifId>>
        /\ UNCHANGED <<jobQueue, jobsProcessing, listeners, docVars, sigVars,
                       runVars, nrunVars, flagVars, restartCount,
                       lastSuccessTime, supVars, stopVars, adminReq, now,
                       nextJobId, docKind, boundVars, lastDone>>

(***************************************************************************)
(* Admission                                                               *)
(***************************************************************************)
\* jobs the admin request in progress will still enqueue
AdminRemaining ==
    IF adminReq.active THEN LoopCount(adminReq.cantidad) - adminReq.i ELSE 0

\* the smallest document id never used
FreshDocs == {d \in DocIds : docKind[d] = "none" /\ \A e \in DocIds : docKind[e] = "none" => d <= e}

RECURSIVE PushJobs(_, _, _, _)
\* the "for (const subject of toAdd) addJob({...})" of handleConfirmation
PushJobs(q, d, firstId, n) ==
    IF n = 0 THEN q
    ELSE PushJobs(Push(q, [id |-> firstId, type |-> "add_to_group",
                           documentId |-> d, subjectId |-> TRUE]),
                  d, firstId + 1, n - 1)

\* handleConfirmation, lines 338-363 of the enrollment handler that enqueues
\* jobs (it imports addJob and initDocument): toAdd has n >= 1
\* subjects; pendingDoc.id is a document not yet confirmed, or one whose
\* second "LISTO" raced the first
Confirm(budget) ==
    \E d \in FreshDocs \cup {e \in DocIds : docKind[e] = "boleta"}, n \in 1..MaxTotal :
        /\ nextJobId + n - 1 + AdminRemaining <= budget
        /\ initDocument(d, Num(n))
        /\ jobQueue' = PushJobs(jobQueue, d, nextJobId, n)
        /\ nextJobId' = nextJobId + n
        /\ docKind' = [docKind EXCEPT ![d] = "boleta"]
        /\ UNCHANGED <<notificationQueue, jobsProcessing, listeners,
                       pendingHandlers, sigVars, runVars, nrunVars, flagVars,
                       restartCount, lastSuccessTime, supVars, stopVars,
                       adminReq, now, nextNotifId, boundVars, lastDone>>

\* POST /admin/create-groups, adminApi.js lines 54-75: cantidad passed the
\* check "!cantidad || cantidad <= 0 || cantidad > MAX_GROUPS"
CreateGroups(budget) ==
    \E d \in FreshDocs, cantidad \in TotalValues :
        /\ ~adminReq.active
        /\ nextJobId + LoopCount(cantidad) - 1 <= budget
        /\ initDocument(d, cantidad)
        /\ adminReq' = [active |-> TRUE, batchId |-> d, cantidad |-> cantidad, i |-> 0]
        /\ docKind' = [docKind EXCEPT ![d] = "batch"]
        /\ UNCHANGED <<jobQueue, notificationQueue, jobsProcessing, listeners,
                       pendingHandlers, sigVars, runVars, nrunVars, flagVars,
                       restartCount, lastSuccessTime, supVars, stopVars, now,
                       nextJobId, nextNotifId, boundVars, lastDone>>

handleConfirmation == Confirm(MaxJobs)
AdminCreateGroups == CreateGroups(MaxJobs)
\* the same admissions where the client may disconnect
handleConfirmationFew == Confirm(MaxLifeJobs)
AdminCreateGroupsFew == CreateGroups(MaxLifeJobs)
\* the same admission where the job worker may crash
handleConfirmationOne == Confirm(MaxFaultJobs)
AdminCreateGroupsOne == CreateGroups(MaxFaultJobs)

\* adminApi.js lines 97-120: one iteration of "for (i < cantidad)"
AdminEnqueue ==
    /\ adminReq.active
    /\ addJob([id |-> nextJobId, type |-> "create_group",
               documentId |-> adminReq.batchId, subjectId |-> TRUE])
    /\ nextJobId' = nextJobId + 1
    /\ adminReq' = IF NumLt(adminReq.i + 1, adminReq.cantidad)
                   THEN [adminReq EXCEPT !.i = @ + 1]
                   ELSE NoAdminRequest
    /\ UNCHANGED <<notificationQueue, jobsProcessing, listeners, trackVars,
                   runVars, nrunVars, flagVars, restartCount, lastSuccessTime,
                   supVars, stopVars, now, nextNotifId, docKind, boundVars, lastDone>>

\* adminApi.js lines 122-127: a persistence call rejects, the request ends
AdminPersistFails ==
    /\ adminReq.active
    /\ adminReq' = NoAdminRequest
    /\ UNCHANGED <<jobQueue, notificationQueue, jobsProcessing, listeners,
                   trackVars, runVars, nrunVars, flagVars, restartCount,
                   lastSuccessTime, supVars, stopVars, now, nextJobId,
                   nextNotifId, docKind, boundVars, lastDone>>

(***************************************************************************)
(* queueWorker.js: stopWorkers, and the clock                              *)
(***************************************************************************)
\* fault variant: "length >= 0": the queues are never seen empty
QueuesNeverEmpty == FALSE

\* the negation of the while condition of waitForQueuesEmpty, line 309
QueuesEmpty == jobQueue = <<>> /\ notificationQueue = <<>>

\* fault variant: Promise.race is awaited outside a try/catch
StopSettlesUncaught(how) == IF how = "timeout" THEN "rejected" ELSE "resolved"

\* lines 322-330: what the promise of stopWorkers settles to; the rejection
\* of timeoutPromise is caught
StopSettles(how) == "resolved"

\* lines 332-336: if (Date.now() - lastSuccessTime > 60000) restartCount = 0
ResetCheck(count) == IF now - lastSuccessTime > RESET_WINDOW THEN 0 ELSE count

\* lines 322-337 and the rest of the 'disconnected' handler (index.js
\* 468-473): stopWorkers returns, the bot is initialized again
StopReturns(how, calledAt) ==
    /\ lastStop' = [how |-> how, settled |-> StopSettles(how),
                    waited |-> now - calledAt,
                    remaining |-> Len(jobQueue) + Len(notificationQueue)]
    /\ restartCount' = ResetCheck(restartCount)
    /\ stop' = NoStop
    /\ client' = "initializing"

\* fault variant: only the flag of the job worker is cleared
StoppedFlagJobOnly(type, current) == IF type = "job" THEN FALSE ELSE current

\* lines 305-306: the value stopWorkers gives the running flag of a worker
StoppedFlag(type, current) == FALSE

\* client.on('disconnected') calls stopWorkers, lines 302-323: both flags are
\* cleared; waitForQueuesEmpty returns at once when both queues are empty
Disconnected ==
    /\ client = "ready"
    /\ isJobWorkerRunning' = StoppedFlag("job", isJobWorkerRunning)
    /\ isNotificationWorkerRunning' =
           StoppedFlag("notification", isNotificationWorkerRunning)
    /\ IF QueuesEmpty
       THEN StopReturns("drained", now)
       ELSE /\ stop' = [pc |-> "waiting", calledAt |-> now,
                        due |-> now + SHUTDOWN_TIMEOUT]
            /\ client' = "stopping"
            /\ UNCHANGED <<lastStop, restartCount>>
    /\ UNCHANGED <<jobQueue, notificationQueue, jobsProcessing, listeners,
                   trackVars, runVars, nrunVars, lastSuccessTime, supVars,
                   adminReq, now, nextJobId, nextNotifId, docKind, boundVars, lastDone>>

\* lines 309-315: a poll of waitForQueuesEmpty finds both queues empty
StopPollSeesEmpty ==
    /\ stop.pc = "waiting"
    /\ QueuesEmpty
    /\ StopReturns("drained", stop.calledAt)
    /\ UNCHANGED <<jobQueue, notificationQueue, jobsProcessing, listeners,
                   trackVars, runVars, nrunVars, flagVars, lastSuccessTime,
                   supVars, adminReq, now, nextJobId, nextNotifId, docKind,
                   boundVars, lastDone>>

\* lines 318-330: the SHUTDOWN_TIMEOUT timer rejects timeoutPromise
StopTimeout ==
    /\ stop.pc = "waiting"
    /\ now >= stop.due
    /\ StopReturns("timeout", stop.calledAt)
    /\ UNCHANGED <<jobQueue, notificationQueue, jobsProcessing, listeners,
                   trackVars, runVars, nrunVars, flagVars, lastSuccessTime,
                   supVars, adminReq, now, nextJobId, nextNotifId, docKind,
                   boundVars, lastDone>>

\* the times at which a pending timer with a long delay is due
TimedDues ==
    (IF stop.pc = "waiting" THEN {stop.due} ELSE {})
        \cup {r.due : r \in BagToSet(restarts)}

MinOf(S) == CHOOSE x \in S : \A y \in S : x <= y

\* a timer that is due fires before the clock moves on; so does the poll of
\* waitForQueuesEmpty (every second) once both queues are empty
NothingDue ==
    /\ \A due \in TimedDues : due > now
    /\ ~(stop.pc = "waiting" /\ QueuesEmpty)

\* time passes until the next timer is due
Tick ==
    /\ TimedDues # {}
    /\ NothingDue
    /\ now' = MinOf(TimedDues)
    /\ UNCHANGED <<qmVars, workerVars, client, adminReq, histVars>>

(***************************************************************************)
(* index.js: client.on('ready'), lines 289-400                             *)
(***************************************************************************)
Ready ==
    /\ client = "initializing"
    /\ readyCount < MaxReady
    /\ readyCount' = readyCount + 1
    /\ client' = "ready"
    /\ startJobWorker
    /\ startNotificationWorker
    /\ listeners' = listeners + 1
    /\ UNCHANGED <<trackVars, restartCount, lastSuccessTime, supVars, stop,
                   lastStop, adminReq, now, nextJobId, nextNotifId, docKind,
                   idleLeaps, lastDelay, lastDone>>

(***************************************************************************)
(* Spec: the client becomes ready and stays connected.  Admission, the job *)
(* worker, the listeners and the notification worker run concurrently.     *)
(***************************************************************************)
Next ==
    \/ handleConfirmation
    \/ AdminCreateGroups
    \/ AdminEnqueue
    \/ AdminPersistFails
    \/ Ready
    \/ PollWake
    \/ AgregarReturns
    \/ BackoffWake
    \/ QueryReturns
    \/ CreateGroupReturns
    \/ PaceCreateWake
    \/ HandlerResolves
    \/ NotifPollWake
    \/ SendReturns
    \/ NotifPaceWake

Spec == Init /\ [][Next]_vars

(***************************************************************************)
(* SpecLife: the client may disconnect and become ready again.  The steps  *)
(* of the listeners and of the notification worker are left out: they do   *)
(* not touch the job queue, the job worker or the running flags.           *)
(***************************************************************************)
NextLife ==
    \/ handleConfirmationFew
    \/ AdminCreateGroupsFew
    \/ AdminEnqueue
    \/ AdminPersistFails
    \/ Ready
    \/ Disconnected
    \/ StopTimeout
    \/ Tick
    \/ PollWake
    \/ AgregarReturns
    \/ BackoffWake
    \/ QueryReturns
    \/ CreateGroupReturns
    \/ PaceCreateWake

SpecLife == Init /\ [][NextLife]_vars

(***************************************************************************)
(* queueWorker.js: the supervisor.  A worker "crashes" when an exception   *)
(* escapes jobWorkerLoop: the awaited call rejects and the handler of the  *)
(* loop-level catch throws in turn.  startJobWorker catches it.            *)
(***************************************************************************)
Min(a, b) == IF a <= b THEN a ELSE b

\* fault variant: the index wraps around the table instead of stopping at
\* its last entry
RestartDelayWraps(count) ==
    WORKER_RESTART_DELAYS[(count % Len(WORKER_RESTART_DELAYS)) + 1]

\* WORKER_RESTART_DELAYS[Math.min(restartCount, WORKER_RESTART_DELAYS.length - 1)]
RestartDelay(count) ==
    WORKER_RESTART_DELAYS[Min(count, Len(WORKER_RESTART_DELAYS) - 1) + 1]

\* restartWithBackoff(type, ...), lines 232-240: up to the await of the delay
restartWithBackoff(type) ==
    LET delayMs == RestartDelay(restartCount)
    IN  /\ restartCount' = restartCount + 1
        /\ restarts' = BagAdd(restarts, [type |-> type, due |-> now + delayMs])
        /\ lastRestart' = [n |-> lastRestart.n + 1, type |-> type,
                           delayMs |-> delayMs, crashedAt |-> now,
                           upSince |-> lastRestart.restartedAt,
                           lastOk |-> lastSuccessTime, restartedAt |-> -1,
                           \* history: the crashes of each worker so far
                           jobCrashes |-> lastRestart.jobCrashes
                               + (IF type = "job" THEN 1 ELSE 0),
                           notifCrashes |-> lastRestart.notifCrashes
                               + (IF type = "job" THEN 0 ELSE 1),
                           \* history: when the supervisor last started a
                           \* worker again
                           lastStart |-> lastRestart.lastStart]

\* startJobWorker lines 270-274: the loop threw; the job it held is abandoned
CrashJob(bound) ==
    \E l \in BagToSet(jobLoops) :
        /\ crashes < bound
        /\ crashes' = crashes + 1
        /\ jobLoops' = BagRemove(jobLoops, l)
        /\ isJobWorkerRunning' = FALSE
        /\ restartWithBackoff("job")
        /\ UNCHANGED <<jobQueue, notificationQueue, jobsProcessing, listeners,
                       trackVars, dequeuedJobs, startedJobs, nrunVars,
                       isNotificationWorkerRunning, lastSuccessTime, stopVars,
                       adminReq, now, nextJobId, nextNotifId, docKind,
                       boundVars, lastDone>>

CrashJobWorker == CrashJob(MaxCrashes)
CrashJobWorkerOften == CrashJob(MaxManyCrashes)

\* startNotificationWorker lines 291-295: the notification loop threw
CrashNotificationWorkerOften ==
    \E l \in BagToSet(notifLoops) :
        /\ crashes < MaxManyCrashes
        /\ crashes' = crashes + 1
        /\ notifLoops' = BagRemove(notifLoops, l)
        /\ isNotificationWorkerRunning' = FALSE
        /\ restartWithBackoff("notification")
        /\ UNCHANGED <<jobQueue, notificationQueue, jobsProcessing, listeners,
                       trackVars, runVars, dequeuedNotifs, notifLog,
                       isJobWorkerRunning, lastSuccessTime, stopVars,
                       adminReq, now, nextJobId, nextNotifId, docKind,
                       boundVars, lastDone>>

\* restartWithBackoff lines 242-252: the delay is over, the worker is started
RestartFires ==
    \E r \in BagToSet(restarts) :
        /\ r.type = "job"
        /\ now >= r.due
        /\ restarts' = BagRemove(restarts, r)
        /\ lastRestart' = [lastRestart EXCEPT !.restartedAt = now,
                                              !.lastStart = now]
        /\ startJobWorker
        /\ UNCHANGED <<notificationQueue, listeners, trackVars, nrunVars,
                       isNotificationWorkerRunning, restartCount,
                       lastSuccessTime, crashes, stopVars, adminReq, now,
                       nextJobId, nextNotifId, docKind, boundVars, lastDone>>

\* restartWithBackoff lines 242-252 for type 'notification'
RestartNotificationFires ==
    \E r \in BagToSet(restarts) :
        /\ r.type = "notification"
        /\ now >= r.due
        /\ restarts' = BagRemove(restarts, r)
        /\ lastRestart' = [lastRestart EXCEPT !.restartedAt = now,
                                              !.lastStart = now]
        /\ startNotificationWorker
        /\ UNCHANGED <<jobQueue, jobsProcessing, listeners, trackVars, runVars,
                       isJobWorkerRunning, restartCount, lastSuccessTime,
                       crashes, stopVars, adminReq, now, nextJobId,
                       nextNotifId, docKind, boundVars, lastDone>>

\* no timer is pending and more than the reset window goes by
TickIdle ==
    /\ TimedDues = {}
    /\ idleLeaps < MaxIdle
    /\ idleLeaps' = idleLeaps + 1
    /\ now' = now + RESET_WINDOW + 1
    /\ UNCHANGED <<qmVars, workerVars, client, adminReq, emitted, emittedCount,
                   lastSignal, docEpoch, initTotal, tracksSinceInit, lastTrack,
                   nextJobId, nextNotifId, dequeuedJobs, dequeuedNotifs,
                   startedJobs, lastDone, notifLog, lastStop, lastRestart,
                   docKind, readyCount, crashes, lastDelay>>

(***************************************************************************)
(* SpecFault: SpecLife for jobs of handleConfirmation, with crashes of the *)
(* job worker, the supervisor's restarts and idle time.                    *)
(***************************************************************************)
NextFault ==
    \/ handleConfirmationOne
    \/ Ready
    \/ Disconnected
    \/ StopPollSeesEmpty
    \/ StopTimeout
    \/ Tick
    \/ TickIdle
    \/ CrashJobWorker
    \/ RestartFires
    \/ PollWake
    \/ AgregarReturns
    \/ BackoffWake
    \/ QueryReturns

SpecFault == Init /\ [][NextFault]_vars

\* the timers of the event loop fire when they are due
SpecFaultFair ==
    /\ SpecFault
    /\ WF_vars(Tick)
    /\ WF_vars(StopTimeout)
    /\ WF_vars(StopPollSeesEmpty)
    /\ WF_vars(RestartFires)

(***************************************************************************)
(* SpecCycle: the ready / disconnected cycle with the listeners of the     *)
(* terminal signals and the notification worker, for one job.              *)
(***************************************************************************)
NextCycle ==
    \/ handleConfirmationOne
    \/ Ready
    \/ Disconnected
    \/ StopTimeout
    \/ Tick
    \/ PollWake
    \/ AgregarReturns
    \/ BackoffWake
    \/ QueryReturns
    \/ HandlerResolves
    \/ NotifPollWake
    \/ SendReturns
    \/ NotifPaceWake

SpecCycle == Init /\ [][NextCycle]_vars

(***************************************************************************)
(* SpecEnqueue: addJob and addNotification called by any caller at any     *)
(* moment: before a worker was started, while the job worker runs, after   *)
(* it crashed, during and after stopWorkers.                               *)
(***************************************************************************)
\* the exported addJob(job), called with a job object of any document
\* admission and the job worker on a client that becomes ready and stays
\* connected
NextDrain ==
    \/ handleConfirmationFew
    \/ AdminCreateGroupsFew
    \/ AdminEnqueue
    \/ AdminPersistFails
    \/ Ready
    \/ PollWake
    \/ AgregarReturns
    \/ BackoffWake
    \/ QueryReturns
    \/ CreateGroupReturns
    \/ PaceCreateWake

\* every timer of the job worker fires and every call it awaits settles
SpecDrainFair ==
    /\ Init /\ [][NextDrain]_vars
    /\ WF_vars(PollWake)
    /\ WF_vars(BackoffWake)
    /\ WF_vars(PaceCreateWake)
    /\ WF_vars(AgregarReturns)
    /\ WF_vars(QueryReturns)
    /\ WF_vars(CreateGroupReturns)

\* stopWorkers with a job or a notification queued, with and without a
\* restart of the job worker during the wait
NextStop ==
    \/ handleConfirmationOne
    \/ Ready
    \/ Disconnected
    \/ StopPollSeesEmpty
    \/ StopTimeout
    \/ Tick
    \/ CrashJobWorker
    \/ RestartFires
    \/ PollWake
    \/ AgregarReturns
    \/ BackoffWake
    \/ QueryReturns
    \/ HandlerResolves
    \/ NotifPollWake
    \/ SendReturns
    \/ NotifPaceWake

SpecStop == Init /\ [][NextStop]_vars

\* both workers crash and are restarted, again and again, on a connected
\* client with nothing queued
NextCrash ==
    \/ Ready
    \/ Tick
    \/ CrashJobWorkerOften
    \/ CrashNotificationWorkerOften
    \/ RestartFires
    \/ RestartNotificationFires

SpecCrash == Init /\ [][NextCrash]_vars

\* ready/disconnected cycles with both workers and a job of either kind
NextSleep ==
    \/ handleConfirmationOne
    \/ AdminCreateGroupsOne
    \/ AdminEnqueue
    \/ Ready
    \/ Disconnected
    \/ StopTimeout
    \/ Tick
    \/ PollWake
    \/ AgregarReturns
    \/ BackoffWake
    \/ QueryReturns
    \/ CreateGroupReturns
    \/ PaceCreateWake
    \/ HandlerResolves
    \/ NotifPollWake
    \/ SendReturns
    \/ NotifPaceWake

SpecSleep == Init /\ [][NextSleep]_vars

AddJobCall(budget) ==
    \E d \in DocIds :
        /\ nextJobId <= budget
        /\ addJob([id |-> nextJobId, type |-> "add_to_group",
                   documentId |-> d, subjectId |-> TRUE])
        /\ nextJobId' = nextJobId + 1
        /\ UNCHANGED <<notificationQueue, jobsProcessing, listeners, trackVars,
                       runVars, nrunVars, flagVars, restartCount,
                       lastSuccessTime, supVars, stopVars, adminReq, now,
                       nextNotifId, docKind, boundVars, lastDone>>

CallAddJob == AddJobCall(MaxFaultJobs)
CallAddJobFew == AddJobCall(MaxLifeJobs)

\* the exported addNotification(notification)
CallAddNotification ==
    \E d \in DocIds :
        /\ nextNotifId <= MaxNotifs
        /\ addNotification([id |-> nextNotifId, documentId |-> d])
        /\ nextNotifId' = nextNotifId + 1
        /\ UNCHANGED <<jobQueue, jobsProcessing, listeners, trackVars, runVars,
                       nrunVars, flagVars, restartCount, lastSuccessTime,
                       supVars, stopVars, adminReq, now, nextJobId, docKind,
                       boundVars, lastDone>>

NextEnqueue ==
    \/ CallAddJob
    \/ CallAddNotification
    \/ Ready
    \/ Disconnected
    \/ StopPollSeesEmpty
    \/ StopTimeout
    \/ Tick
    \/ CrashJobWorker
    \/ RestartFires
    \/ PollWake
    \/ AgregarReturns
    \/ BackoffWake
    \/ QueryReturns

SpecEnqueue == Init /\ [][NextEnqueue]_vars

(***************************************************************************)
(* QueueManager-level specification with non-empty queues: addJob,         *)
(* addNotification, initDocument and trackJobCompletion called in any      *)
(* order, so that completions are tracked while jobs of several documents  *)
(* and notifications are queued.                                           *)
(***************************************************************************)
NextTrack ==
    \/ CallAddJobFew
    \/ CallAddNotification
    \/ CallInitDocumentSmall
    \/ CallTrackJobCompletion

SpecTrack == Init /\ [][NextTrack]_vars

(***************************************************************************)
(* The pacer: randomDelay and delayFromRange.  The computed wait is the    *)
(* value handed to setTimeout.                                             *)
(***************************************************************************)
\* config.js: DELAYS and NOTIFICATION_DELAYS
DELAYS == {<<1000, 2500>>, <<2500, 8000>>, <<7000, 14000>>, <<5000, 8000>>}
NOTIFICATION_DELAYS == <<2000, 5000>>

Millis == 0..MaxMs
\* Math.random(): k / RandomSteps for k in RandomDraws, so 0 <= random < 1
RandomDraws == 0..(RandomSteps - 1)
\* the arguments delayFromRange is called with: the configured ranges, small
\* arrays of every length up to MaxItems, and bare numbers
Ranges ==
    {Arr(s) : s \in DELAYS \cup {NOTIFICATION_DELAYS}}
        \cup {Arr(s) : s \in UNION {[1..n -> Millis] : n \in 0..MaxItems}}
        \cup {Number(n) : n \in Millis}

\* fault variant: Math.round in place of Math.floor
randomDelayRounded(minMs, maxMs, k) ==
    ((2 * k * (maxMs - minMs + 1) + RandomSteps) \div (2 * RandomSteps)) + minMs

\* Math.floor(Math.random() * (maxMs - minMs + 1)) + minMs
randomDelay(minMs, maxMs, k) ==
    ((k * (maxMs - minMs + 1)) \div RandomSteps) + minMs

\* delayFromRange(range): the argument of setTimeout
delayFromRange(range, k) ==
    IF range.kind = "array" /\ Len(range.items) = 2
    THEN [random |-> TRUE,
          timer |-> Number(randomDelay(range.items[1], range.items[2], k))]
    ELSE [random |-> FALSE, timer |-> range]

\* everything but lastDelay
unpacedVars == <<qmVars, workerVars, envVars, emitted, emittedCount, lastSignal,
                 docEpoch, initTotal, tracksSinceInit, lastTrack, nextJobId,
                 nextNotifId, dequeuedJobs, dequeuedNotifs, startedJobs,
                 lastDone, notifLog, lastStop, lastRestart, docKind,
                 readyCount, crashes, idleLeaps>>

\* a direct call randomDelay(minMs, maxMs)
CallRandomDelay ==
    \E minMs \in Millis, maxMs \in Millis, k \in RandomDraws :
        /\ lastDelay' = [via |-> "randomDelay", range |-> Arr(<<minMs, maxMs>>),
                         random |-> TRUE,
                         timer |-> Number(randomDelay(minMs, maxMs, k))]
        /\ UNCHANGED unpacedVars

\* a call delayFromRange(range)
CallDelayFromRange ==
    \E range \in Ranges, k \in RandomDraws :
        LET d == delayFromRange(range, k)
        IN  /\ lastDelay' = [via |-> "delayFromRange", range |-> range,
                             random |-> d.random, timer |-> d.timer]
            /\ UNCHANGED unpacedVars

NextPacer ==
    \/ CallRandomDelay
    \/ CallDelayFromRange

SpecPacer == Init /\ [][NextPacer]_vars

(***************************************************************************)
(* Properties                                                              *)
(***************************************************************************)
\* the ids of the items of a queue, in queue order
Ids(q) == [i \in 1..Len(q) |-> q[i].id]
\* <<1, 2, ..., n>>: the ids in the order the items were enqueued
UpTo(n) == [i \in 1..n |-> i]
\* the number of FALSE entries of a sequence of outcomes
Failures(results) == Cardinality({i \in 1..Len(results) : ~results[i]})
\* terminal signals emitted for document d since its latest initDocument
EmittedFor(d) == emitted[d].completed + emitted[d].failed
\* the loop invocations that hold a job
Executing == {l \in BagToSet(jobLoops) : l.job.id # 0}

\* C1 (Spec): each queue is strict FIFO.  The items dequeued so far, followed
\* by the items still queued, are exactly the items enqueued, in the order
\* they were enqueued: nothing is skipped, duplicated or reordered, under
\* every interleaving of enqueues and dequeues.  The job worker begins to
\* execute the jobs in the order it dequeued them.
C1_QueuesAreFifo ==
    /\ dequeuedJobs \o Ids(jobQueue) = UpTo(nextJobId - 1)
    /\ dequeuedNotifs \o Ids(notificationQueue) = UpTo(nextNotifId - 1)
    /\ startedJobs = dequeuedJobs

\* two jobs were dequeued while a later one is still queued, and two
\* notifications went through their queue
C1_Witness ==
    /\ Len(dequeuedJobs) >= 2
    /\ Len(jobQueue) >= 1
    /\ Len(dequeuedNotifs) >= 2

\* C2 (SpecQM): a document initialised with an integer total N has, before
\* its N-th trackJobCompletion call, its record and no terminal signal; from
\* the N-th call on, exactly one terminal signal (completed or failed, not
\* both, not more than one) and no record.
C2_ExactlyOneTerminalSignal ==
    \A d \in DocIds :
        (docEpoch[d] > 0 /\ IsIntegral(initTotal[d])) =>
            IF NumLt(tracksSinceInit[d], initTotal[d])
            THEN EmittedFor(d) = 0 /\ HasProgress(d)
            ELSE EmittedFor(d) = 1 /\ ~HasProgress(d)

\* a document of total 3 has just had its third call and was signalled failed
C2_Witness ==
    \E d \in DocIds :
        /\ initTotal[d] = Num(3)
        /\ tracksSinceInit[d] = 3
        /\ emitted[d] = [completed |-> 0, failed |-> 1]
        /\ ~HasProgress(d)

\* C3 (Spec): every document that has a progress record has
\* completed <= total.
C3_CompletedWithinTotal ==
    \A d \in DocIds :
        HasProgress(d) =>
            NumLe(documentProgress[d].completed, documentProgress[d].total)

\* C4 (SpecQM): the signal of a full document is "document:failed" if and
\* only if at least DOCUMENT_FAIL_THRESHOLD of its tracked outcomes were
\* failures, whatever their order; of 5 outcomes, 2 failures give the
\* completed signal and 3 failures the failed one.  The signal carries that
\* number as failedCount.
C4_FailedIffThreshold ==
    lastSignal.n > 0 =>
        LET f == Failures(lastSignal.results)
        IN  /\ lastSignal.failedCount = f
            /\ (lastSignal.kind = "document:failed")
                   <=> (f >= DOCUMENT_FAIL_THRESHOLD)
            /\ (lastSignal.kind = "document:ready-to-notify")
                   <=> (f < DOCUMENT_FAIL_THRESHOLD)
            /\ (Len(lastSignal.results) = 5 /\ f = 2)
                   => lastSignal.kind = "document:ready-to-notify"
            /\ (Len(lastSignal.results) = 5 /\ f = 3)
                   => lastSignal.kind = "document:failed"

\* a document of 5 jobs is signalled failed with exactly 3 failures, the
\* last outcome being a success
C4_Witness ==
    /\ lastSignal.kind = "document:failed"
    /\ Len(lastSignal.results) = 5
    /\ Failures(lastSignal.results) = 3
    /\ lastSignal.results[5]

\* C5 (Spec): an add_to_group job whose execution function first succeeded
\* on call k was called exactly k times, k <= MAX_RETRIES + 1, and the
\* outcome passed to trackJobCompletion is a success; a job tracked as a
\* success did succeed on some call.
C5_StopsAtFirstSuccess ==
    (lastDone.n > 0 /\ lastDone.type = "add_to_group") =>
        /\ lastDone.successAt > 0 =>
               /\ lastDone.invocations = lastDone.successAt
               /\ lastDone.successAt <= MAX_RETRIES + 1
               /\ lastDone.success
        /\ lastDone.success => lastDone.successAt > 0

\* a job succeeded on its third call
C5_Witness ==
    /\ lastDone.type = "add_to_group"
    /\ lastDone.successAt = 3
    /\ lastDone.invocations = 3
    /\ lastDone.success

\* C6 (Spec): an add_to_group job whose execution function never succeeded
\* was called exactly MAX_RETRIES + 1 times, is tracked as a failure, and
\* raised the failedCount of its document's record by exactly one.
C6_FailsAfterAllAttempts ==
    (lastDone.n > 0 /\ lastDone.type = "add_to_group" /\ lastDone.successAt = 0) =>
        /\ lastDone.invocations = MAX_RETRIES + 1
        /\ ~lastDone.success
        /\ lastDone.found => lastDone.failedDelta = 1

\* a job failed on every call and its document had a record
C6_Witness ==
    /\ lastDone.type = "add_to_group"
    /\ lastDone.successAt = 0
    /\ lastDone.invocations = MAX_RETRIES + 1
    /\ lastDone.found
    /\ lastDone.failedDelta = 1

\* C7 (SpecQM): a trackJobCompletion call for a document without a record
\* changes nothing: no record appears, no signal is emitted, no listener is
\* invoked, and the totals, both queues and every record stay as they were.
C7_UnknownDocumentIsNoOp ==
    [][(lastTrack'.n # lastTrack.n /\ ~HasProgress(lastTrack'.documentId)) =>
          UNCHANGED <<documentProgress, totalCompleted, totalFailed, jobQueue,
                      notificationQueue, emitted, emittedCount, lastSignal,
                      pendingHandlers>>]_vars

\* the latest call was for a document already signalled completed and removed
C7_Witness ==
    /\ lastTrack.n > 0
    /\ ~lastTrack.found
    /\ emitted[lastTrack.documentId].completed = 1
    /\ ~HasProgress(lastTrack.documentId)

\* C8 (SpecFaultFair): every stopWorkers call returns, and its promise
\* resolves.  It never waits longer than SHUTDOWN_TIMEOUT; a call that
\* returns while work is still queued returns by the timeout, exactly
\* SHUTDOWN_TIMEOUT after it was made.
C8_StopWorkersReturns ==
    /\ [](lastStop.how # "none" =>
              /\ lastStop.settled = "resolved"
              /\ lastStop.waited <= SHUTDOWN_TIMEOUT)
    /\ [](lastStop.how = "timeout" => lastStop.waited = SHUTDOWN_TIMEOUT)
    /\ [](lastStop.remaining > 0 => lastStop.how = "timeout")
    /\ [](stop.pc = "waiting" => now - stop.calledAt <= SHUTDOWN_TIMEOUT)
    /\ ((stop.pc = "waiting") ~> (stop.pc = "idle"))

\* a call returned at the deadline with work left in the queue
C8_Witness ==
    /\ lastStop.how = "timeout"
    /\ lastStop.settled = "resolved"
    /\ lastStop.waited = SHUTDOWN_TIMEOUT
    /\ lastStop.remaining > 0
    /\ jobQueue # <<>>

\* C9 (SpecFault): the first crash is followed by a restart after the first
\* delay; and a crash of a worker that was restarted, and whose latest
\* successfully processed job ended more than the reset window after that
\* restart, is again followed by the first delay.
C9_FirstDelayAfterLongRun ==
    /\ lastRestart.n = 1 =>
           /\ lastRestart.delayMs = WORKER_RESTART_DELAYS[1]
           /\ lastRestart.restartedAt >= 0 =>
                  lastRestart.restartedAt = lastRestart.crashedAt + lastRestart.delayMs
    /\ (/\ lastRestart.n >= 2
        /\ lastRestart.upSince >= 0
        /\ lastDone.n > 0
        /\ lastDone.success
        /\ lastRestart.lastOk - lastRestart.upSince > RESET_WINDOW)
           => lastRestart.delayMs = WORKER_RESTART_DELAYS[1]

\* C10 (SpecLife): at most one jobWorkerLoop invocation is active and at most
\* one job is being executed.
C10_OneLoopOneJob ==
    /\ BagCardinality(jobLoops) <= 1
    /\ Cardinality(Executing) <= 1

\* C11 (SpecCycle): after any sequence of ready and disconnected events, a
\* terminal signal invokes one listener, and no more summary notifications
\* are enqueued than terminal signals were emitted: one per finished
\* document, not more.
C11_OneNotificationPerDocument ==
    LET signals == emittedCount.completed + emittedCount.failed
    IN  /\ BagCardinality(pendingHandlers) <= signals
        /\ nextNotifId - 1 <= signals

\* C12 (SpecEnqueue): addJob and addNotification can be called in every
\* state, whatever the workers do.  A call puts one element at the tail of
\* its own queue, keeps the elements already queued in place, and leaves the
\* other queue and the progress records unchanged.
C12_EnqueueNeverFails ==
    /\ [](nextJobId <= MaxFaultJobs => ENABLED CallAddJob)
    /\ [](nextNotifId <= MaxNotifs => ENABLED CallAddNotification)
    /\ [][CallAddJob =>
            /\ Len(jobQueue') = Len(jobQueue) + 1
            /\ SubSeq(jobQueue', 1, Len(jobQueue)) = jobQueue
            /\ jobQueue'[Len(jobQueue')].id = nextJobId
            /\ UNCHANGED <<notificationQueue, documentProgress>>]_vars
    /\ [][CallAddNotification =>
            /\ Len(notificationQueue') = Len(notificationQueue) + 1
            /\ SubSeq(notificationQueue', 1, Len(notificationQueue)) = notificationQueue
            /\ notificationQueue'[Len(notificationQueue')].id = nextNotifId
            /\ UNCHANGED <<jobQueue, documentProgress>>]_vars

\* a notification was enqueued behind another one after the job worker
\* crashed and while a stopWorkers call waits
C12_Witness ==
    /\ Len(notificationQueue) = 2
    /\ notificationQueue[2].id = 2
    /\ crashes >= 1
    /\ stop.pc = "waiting"

\* the loop invocations of the notification worker that await sendMessage
Sending == {l \in BagToSet(notifLoops) : l.pc = "sendMessage"}

\* C13 (Spec): a notification that was dequeued has had exactly one delivery
\* attempt and one that was not has had none.  When a send ends, failed or
\* not, the notification is not put back on the queue, the worker's loop
\* stays alive with its flag set, and the progress records and the totals
\* are unchanged.
C13_OneDeliveryAttempt ==
    /\ [](\A n \in NotifIds :
              notifLog[n] = IF \E i \in 1..Len(dequeuedNotifs) : dequeuedNotifs[i] = n
                            THEN 1 ELSE 0)
    /\ [][Cardinality(Sending') < Cardinality(Sending) =>
              /\ BagCardinality(notifLoops') = BagCardinality(notifLoops)
              /\ isNotificationWorkerRunning'
              /\ UNCHANGED <<notificationQueue, documentProgress,
                             totalCompleted, totalFailed>>]_vars

\* the send of the first notification has failed: the worker is alive in
\* its pause, the notification was tried once, and only the second one is
\* queued
C13_Witness ==
    /\ dequeuedNotifs = <<1>>
    /\ notifLog[1] = 1
    /\ isNotificationWorkerRunning
    /\ Ids(notificationQueue) = <<2>>
    /\ \E l \in BagToSet(notifLoops) :
           l.pc = "pace" /\ l.notification.id = 1 /\ ~l.delivered

\* C14 (Spec): the job worker does not dequeue a job in the turn in which it
\* finishes the previous one: between the tracking of a job's outcome and
\* the next dequeue lies the pacing pause, so a dequeue is made only by a
\* loop that wakes from a pause or from its poll wait, or that has just
\* been started.
C14_PacingBeforeNextDequeue ==
    [][Len(dequeuedJobs') > Len(dequeuedJobs) => lastDone'.n = lastDone.n]_vars

\* C15 (Spec): a second or later call of the execution function for a job
\* is made only by a loop that wakes from the after-error pause: between two
\* consecutive attempts of a job lies that pause, whether the earlier
\* attempt returned a failure or threw.
C15_BackoffBetweenAttempts ==
    [][\A l2 \in BagToSet(jobLoops') :
           (l2.pc = "agregarAGrupo" /\ l2.invocations >= 2 /\ ~BagIn(l2, jobLoops))
               => \E l \in BagToSet(jobLoops) : l.pc = "backoff" /\ l.job = l2.job]_vars

\* C16 (Spec): a create_group job is handled like an add_to_group job: one
\* that never succeeded was attempted MAX_RETRIES + 1 times, one that first
\* succeeded on attempt k was attempted k times, and, as the job carries a
\* subject id, its outcome is tracked by the loop that has just awaited the
\* persistence of its status.
C16_CreateGroupSameContract ==
    /\ []((lastDone.n > 0 /\ lastDone.type = "create_group") =>
              lastDone.invocations = IF lastDone.successAt > 0
                                     THEN lastDone.successAt
                                     ELSE MAX_RETRIES + 1)
    /\ [][(lastDone'.n # lastDone.n /\ lastDone'.type = "create_group") =>
              \E l \in BagToSet(jobLoops) :
                  l.pc = "query" /\ l.job.id = lastDone'.id]_vars

\* C17 (Spec): a call of the execution function that throws is one failed
\* attempt.  Every call, thrown or returned, counts once toward the retry
\* bound, so a job is never called more than MAX_RETRIES + 1 times; a job
\* whose calls all threw is tracked as a failure after MAX_RETRIES + 1
\* calls.  The exception does not leave the loop: when the outcome of such a
\* job is tracked the loop invocation is still alive, the running flag is
\* unchanged and no restart is scheduled.
C17_ThrowIsFailedAttempt ==
    /\ [](\A l \in Executing :
              l.job.type = "add_to_group" =>
                  /\ l.invocations <= MAX_RETRIES + 1
                  /\ l.threw <= l.invocations
                  /\ l.invocations = l.attempts
                         + (IF l.pc \in {"agregarAGrupo", "backoff"} THEN 1 ELSE 0)
                  /\ l.last = "throw" => ~l.exito)
    /\ []((lastDone.n > 0 /\ lastDone.type = "add_to_group"
              /\ lastDone.threw = lastDone.invocations) =>
                  /\ lastDone.invocations = MAX_RETRIES + 1
                  /\ ~lastDone.success)
    /\ [][(lastDone'.n # lastDone.n /\ lastDone'.threw > 0) =>
              /\ UNCHANGED <<isJobWorkerRunning, restarts, crashes>>
              /\ BagCardinality(jobLoops') = BagCardinality(jobLoops)]_vars

\* every call for the first job threw; it was tracked as a failure and the
\* worker has dequeued the second job
C17_Witness ==
    /\ lastDone.id = 1
    /\ lastDone.threw = MAX_RETRIES + 1
    /\ ~lastDone.success
    /\ dequeuedJobs = <<1, 2>>
    /\ isJobWorkerRunning
    /\ \E l \in Executing : l.job.id = 2

\* C18 (Spec): when the status update of a job is rejected, the outcome of
\* the job is the one the retry loop produced, trackJobCompletion is called
\* once in that step with that outcome for the job's document, and the
\* worker goes on: the loop invocation stays alive and, if a job is queued,
\* dequeues it.  No job is tracked twice: the calls of trackJobCompletion
\* are as many as the jobs finished, and each finished job was dequeued
\* once (a job still held by the loop is untracked, except a create_group job
\* in its pacing wait, which is tracked before that wait).
C18_PersistFailureKeepsOutcome ==
    /\ [](/\ lastTrack.n = lastDone.n
          /\ lastDone.n + Cardinality({l \in Executing : l.pc # "paceCreate"})
                 = Len(dequeuedJobs)
          /\ \A i, j \in 1..Len(dequeuedJobs) :
                 dequeuedJobs[i] = dequeuedJobs[j] => i = j)
    /\ [][(lastDone'.n # lastDone.n /\ lastDone'.persisted = "failed") =>
              \E l \in BagToSet(jobLoops) :
                  /\ l.pc = "query"
                  /\ l.job.id = lastDone'.id
                  /\ lastDone'.success = l.exito
                  /\ lastDone'.n = lastDone.n + 1
                  /\ lastTrack'.n = lastTrack.n + 1
                  /\ lastTrack'.documentId = l.job.documentId
                  /\ lastTrack'.success = l.exito
                  /\ BagCardinality(jobLoops') = BagCardinality(jobLoops)
                  /\ UNCHANGED <<isJobWorkerRunning, restarts, crashes>>
                  /\ (isJobWorkerRunning /\ jobQueue # <<>>) =>
                         dequeuedJobs' = Append(dequeuedJobs, Head(jobQueue).id)]_vars

\* the status update of the first job was rejected, the job is still a
\* success, and the worker has dequeued the second job
C18_Witness ==
    /\ lastDone.id = 1
    /\ lastDone.persisted = "failed"
    /\ lastDone.success
    /\ lastTrack.n = 1
    /\ lastTrack.success
    /\ dequeuedJobs = <<1, 2>>

\* C19 (SpecQM): a call of initDocument(id, total), whether or not the id
\* already has a progress record, leaves the record total = total,
\* completed = 0, failedCount = 0 and no results; it emits no signal, changes
\* no total of finished documents and no other document's record.
C19_InitDocumentOverwrites ==
    [][\A d \in DocIds :
           docEpoch'[d] # docEpoch[d] =>
               /\ documentProgress'[d] =
                      [total |-> initTotal'[d], completed |-> 0,
                       results |-> <<>>, failedCount |-> 0, absent |-> FALSE]
               /\ \A e \in DocIds \ {d} :
                      documentProgress'[e] = documentProgress[e]
               /\ UNCHANGED <<emittedCount, lastSignal, pendingHandlers,
                              totalCompleted, totalFailed>>]_vars

\* document 1 was initialised, a completion was recorded in its record
\* without finishing it, and then it was initialised again: the counters
\* are back to zero
C19_Witness ==
    /\ docEpoch[1] = 2
    /\ lastTrack.n >= 1
    /\ lastTrack.documentId = 1
    /\ lastTrack.found
    /\ emittedCount.completed + emittedCount.failed = 0
    /\ tracksSinceInit[1] = 0
    /\ ~documentProgress[1].absent
    /\ documentProgress[1].completed = 0
    /\ documentProgress[1].results = <<>>

\* C20 (SpecCycle): while a running flag is false and stays false (stopWorkers
\* has cleared it and no worker was started again), the worker of that flag
\* dequeues nothing: no step lengthens the list of dequeued items, and no
\* loop invocation goes back to its poll wait or takes a new item; an
\* invocation only goes on with the item it already holds, or ends.  In
\* every step that dequeues, the flag of that worker is set afterwards.
C20_NoDequeueAfterStop ==
    /\ [][(~isJobWorkerRunning /\ ~isJobWorkerRunning') =>
              /\ dequeuedJobs' = dequeuedJobs
              /\ BagCardinality(jobLoops') <= BagCardinality(jobLoops)
              /\ \A l2 \in BagToSet(jobLoops') :
                     \/ CopiesIn(l2, jobLoops') <= CopiesIn(l2, jobLoops)
                     \/ /\ l2.job.id # 0
                        /\ \E l \in BagToSet(jobLoops) : l.job = l2.job]_vars
    /\ [][(~isNotificationWorkerRunning /\ ~isNotificationWorkerRunning') =>
              /\ dequeuedNotifs' = dequeuedNotifs
              /\ BagCardinality(notifLoops') <= BagCardinality(notifLoops)
              /\ \A l2 \in BagToSet(notifLoops') :
                     \/ CopiesIn(l2, notifLoops') <= CopiesIn(l2, notifLoops)
                     \/ /\ l2.notification.id # 0
                        /\ \E l \in BagToSet(notifLoops) :
                               l.notification = l2.notification]_vars
    /\ [][dequeuedJobs' # dequeuedJobs => isJobWorkerRunning']_vars
    /\ [][dequeuedNotifs' # dequeuedNotifs => isNotificationWorkerRunning']_vars

\* the workers were started once and stopped; the job worker finished its
\* job, both loops have ended, and a notification is still queued
C20_Witness ==
    /\ readyCount = 1
    /\ ~isJobWorkerRunning
    /\ ~isNotificationWorkerRunning
    /\ lastDone.n = 1
    /\ jobLoops = EmptyBag
    /\ notifLoops = EmptyBag
    /\ notificationQueue # <<>>
    /\ dequeuedNotifs = <<>>

\* C21 (SpecLife): a job that a loop holds is not cancelled by stopWorkers.
\* A loop invocation lets go of its job only in a step that tracks the
\* outcome of that job (or, for a create_group job, after the pacing wait
\* that follows the tracking).  The outcome of an add_to_group job tracked
\* while isJobWorkerRunning is false comes after the attempts the retry loop
\* owes it: up to the first success, or MAX_RETRIES + 1 of them.
C21_DequeuedJobRunsToItsEnd ==
    /\ [][\A l \in Executing :
              (\A l2 \in BagToSet(jobLoops') : l2.job # l.job) =>
                  \/ l.pc = "paceCreate"
                  \/ /\ lastDone'.n = lastDone.n + 1
                     /\ lastDone'.id = l.job.id
                     /\ lastTrack'.n = lastTrack.n + 1
                     /\ lastTrack'.documentId = l.job.documentId]_vars
    /\ []((lastDone.stopped /\ lastDone.type = "add_to_group") =>
              lastDone.invocations = IF lastDone.successAt > 0
                                     THEN lastDone.successAt
                                     ELSE MAX_RETRIES + 1)

\* the workers were started once; the job was still being executed when the
\* flag was cleared, went through all its attempts and was tracked as a
\* failure, and the loop has ended
C21_Witness ==
    /\ readyCount = 1
    /\ ~isJobWorkerRunning
    /\ lastDone.stopped
    /\ lastDone.type = "add_to_group"
    /\ lastDone.invocations = MAX_RETRIES + 1
    /\ ~lastDone.success
    /\ lastTrack.n = lastDone.n
    /\ jobLoops = EmptyBag

\* the loop invocations of this step that leave the wait they were in
JobWakers(pcs) ==
    {l \in BagToSet(jobLoops) :
         l.pc \in pcs /\ CopiesIn(l, jobLoops') < CopiesIn(l, jobLoops)}
NotifWakers(pcs) ==
    {l \in BagToSet(notifLoops) :
         l.pc \in pcs /\ CopiesIn(l, notifLoops') < CopiesIn(l, notifLoops)}
\* the loop invocations that begin an external operation in this step
JobCalls ==
    {l \in BagToSet(jobLoops') :
         /\ l.pc \in {"agregarAGrupo", "createGroup", "query"}
         /\ CopiesIn(l, jobLoops') > CopiesIn(l, jobLoops)}
NotifCalls ==
    {l \in BagToSet(notifLoops') :
         /\ l.pc = "sendMessage"
         /\ CopiesIn(l, notifLoops') > CopiesIn(l, notifLoops)}

\* C22 (SpecSleep): a worker that wakes from any of its sleeps (the poll
\* wait, the after-error backoff, the pacing wait) while its running flag is
\* false begins no external operation.
C22_FlagRecheckedAfterEverySleep ==
    /\ [][(~isJobWorkerRunning
             /\ JobWakers({"poll", "backoff", "pace", "paceCreate"}) # {})
              => JobCalls = {}]_vars
    /\ [][(~isNotificationWorkerRunning /\ NotifWakers({"poll", "pace"}) # {})
              => NotifCalls = {}]_vars

\* C22 as amended (SpecSleep): a worker that wakes from its poll wait or from
\* a pacing wait while its running flag is false begins no external
\* operation and its loop invocation ends.  A job worker that wakes from the
\* after-error backoff makes the next attempt of its job, whatever the flag.
C22_FlagRecheckedAfterPollAndPacing ==
    /\ [][(~isJobWorkerRunning
             /\ JobWakers({"poll", "pace", "paceCreate"}) # {}) =>
              /\ JobCalls = {}
              /\ BagCardinality(jobLoops') = BagCardinality(jobLoops) - 1
              /\ UNCHANGED <<jobQueue, dequeuedJobs>>]_vars
    /\ [][(~isNotificationWorkerRunning /\ NotifWakers({"poll", "pace"}) # {}) =>
              /\ NotifCalls = {}
              /\ BagCardinality(notifLoops') = BagCardinality(notifLoops) - 1
              /\ UNCHANGED <<notificationQueue, dequeuedNotifs>>]_vars
    /\ [][\A l \in JobWakers({"backoff"}) :
              \E l2 \in JobCalls :
                  /\ l2.job = l.job
                  /\ l2.pc = "agregarAGrupo"
                  /\ l2.invocations = l.invocations + 1]_vars

\* the workers were started once; a create_group job was tracked after the
\* flag was cleared, and the loop, woken from the pacing wait that follows,
\* has ended
C22_Witness ==
    /\ readyCount = 1
    /\ ~isJobWorkerRunning
    /\ lastDone.stopped
    /\ lastDone.type = "create_group"
    /\ jobLoops = EmptyBag

\* C23 (SpecCrash): restartCount goes up by exactly one with every crash.
\* At a crash that finds restartCount = k the supervisor sets its timer to
\* WORKER_RESTART_DELAYS[min(k, len-1)] (counting entries from 0): the
\* index is inside the table, the delay is at least the delay of the crash
\* before, and it is the last entry once k >= len-1.
C23_RestartDelayFromTable ==
    /\ [](restartCount = crashes)
    /\ [][crashes' # crashes =>
              LET k == restartCount
                  len == Len(WORKER_RESTART_DELAYS)
                  idx == Min(k, len - 1) + 1
              IN  /\ idx \in DOMAIN WORKER_RESTART_DELAYS
                  /\ restartCount' = k + 1
                  /\ lastRestart'.delayMs = WORKER_RESTART_DELAYS[idx]
                  /\ \E r \in BagToSet(restarts') :
                         /\ r.due = now + WORKER_RESTART_DELAYS[idx]
                         /\ CopiesIn(r, restarts') = CopiesIn(r, restarts) + 1
                  /\ k >= 1 => lastRestart'.delayMs >= lastRestart.delayMs
                  /\ k >= len - 1 =>
                         lastRestart'.delayMs = WORKER_RESTART_DELAYS[len]]_vars

\* the sixth crash (k = 5, past the end of the table) waits the last entry
C23_Witness ==
    /\ crashes = 6
    /\ restartCount = 6
    /\ lastRestart.n = 6
    /\ lastRestart.delayMs = 60000

\* C24 (SpecCrash): restart state is per worker.  The delay that follows a
\* crash of a worker is the one selected by the number of earlier crashes of
\* that same worker; the crashes and restarts of the other worker do not
\* enter into it.
C24_RestartStatePerWorker ==
    [][lastRestart'.n # lastRestart.n =>
           lastRestart'.delayMs =
               RestartDelay(IF lastRestart'.type = "job"
                            THEN lastRestart.jobCrashes
                            ELSE lastRestart.notifCrashes)]_vars

\* C25 (SpecFault): a stopWorkers call made with both queues empty returns
\* in the same turn, without the deadline.  A call made with work queued
\* waits; it returns only in a step where a poll finds both queues empty,
\* before the deadline, or in the step where the deadline timer fires,
\* SHUTDOWN_TIMEOUT after the call; it never waits past the deadline.
C25_StopResolvesOnDrainOrDeadline ==
    /\ [][(client = "ready" /\ client' # "ready") =>
              IF jobQueue = <<>> /\ notificationQueue = <<>>
              THEN /\ stop'.pc = "idle"
                   /\ client' = "initializing"
                   /\ lastStop'.how = "drained"
                   /\ lastStop'.waited = 0
              ELSE /\ stop'.pc = "waiting"
                   /\ stop'.calledAt = now
                   /\ stop'.due = now + SHUTDOWN_TIMEOUT
                   /\ lastStop' = lastStop]_vars
    /\ [][(stop.pc = "waiting" /\ stop'.pc # "waiting") =>
              \/ /\ jobQueue = <<>> /\ notificationQueue = <<>>
                 /\ now <= stop.due
                 /\ lastStop'.how = "drained"
                 /\ lastStop'.remaining = 0
              \/ /\ now = stop.calledAt + SHUTDOWN_TIMEOUT
                 /\ lastStop'.how = "timeout"]_vars
    /\ [](stop.pc = "waiting" => now <= stop.due)

\* a call waited, a restarted worker emptied the queue, and a poll saw it
\* before the deadline
C25_Witness ==
    /\ lastStop.how = "drained"
    /\ lastStop.waited > 0
    /\ lastStop.waited < SHUTDOWN_TIMEOUT
    /\ lastStop.remaining = 0
    /\ stop.pc = "idle"

\* C26 (SpecLife): an admission enqueues as many jobs as the total it gave
\* initDocument.  handleConfirmation does so in the step of its
\* initDocument call; the admin request, for a whole number of groups, has
\* done so when it ends, however it ends.
C26_JobsEnqueuedEqualTotal ==
    /\ [][\A d \in DocIds :
              (docEpoch'[d] # docEpoch[d] /\ docKind'[d] = "boleta") =>
                  NumEq(nextJobId' - nextJobId, initTotal'[d])]_vars
    /\ [][(adminReq.active /\ ~adminReq'.active
             /\ IsIntegral(adminReq.cantidad)) =>
              NumEq(adminReq.i + (nextJobId' - nextJobId),
                    adminReq.cantidad)]_vars

\* the jobs of document d that are queued or held by a loop, untracked
PendingFor(d) ==
    Cardinality({i \in 1..Len(jobQueue) : jobQueue[i].documentId = d})
        + Cardinality({l \in Executing :
                           l.job.documentId = d /\ l.pc # "paceCreate"})

\* C27 (SpecDrainFair): with the job worker running, every queued job is
\* eventually dequeued and its outcome tracked; and every document whose
\* record has a whole total N >= 1, with as many jobs tracked or still to be
\* tracked, eventually emits a terminal signal.
C27_EveryJobTrackedEveryDocumentSignals ==
    /\ \A j \in JobIds :
           (isJobWorkerRunning /\ \E i \in 1..Len(jobQueue) : jobQueue[i].id = j)
               ~> (lastDone.id = j /\ \E i \in 1..Len(dequeuedJobs) :
                                          dequeuedJobs[i] = j)
    /\ \A d \in DocIds :
           (/\ isJobWorkerRunning
            /\ ~documentProgress[d].absent
            /\ IsIntegral(documentProgress[d].total)
            /\ documentProgress[d].total >= Num(1)
            /\ EmittedFor(d) = 0
            /\ Num(documentProgress[d].completed + PendingFor(d))
                   >= documentProgress[d].total)
               ~> (EmittedFor(d) > 0)

\* a document of two jobs, both tracked, has emitted its signal
C27_Witness ==
    /\ isJobWorkerRunning
    /\ initTotal[1] = Num(2)
    /\ tracksSinceInit[1] = 2
    /\ lastDone.n = 2
    /\ EmittedFor(1) = 1
    /\ documentProgress[1].absent
    /\ jobQueue = <<>>

\* C28 (SpecQM): every progress record holds as many results as its
\* completed count, in the order the completions were tracked (each tracked
\* completion is appended at the end); failedCount is the number of results
\* that are failures and is at most completed.  The terminal signal carries
\* that list, with the last completion appended, and the list has exactly
\* total entries.
C28_ResultListMatchesCounts ==
    /\ [](\A d \in DocIds :
              ~documentProgress[d].absent =>
                  /\ Len(documentProgress[d].results) = documentProgress[d].completed
                  /\ documentProgress[d].failedCount
                         = Failures(documentProgress[d].results)
                  /\ documentProgress[d].failedCount <= documentProgress[d].completed)
    /\ [][(lastTrack'.n # lastTrack.n /\ lastTrack'.found) =>
              LET d == lastTrack'.documentId
                  list == Append(documentProgress[d].results, lastTrack'.success)
              IN  IF lastSignal'.n # lastSignal.n
                  THEN /\ lastSignal'.documentId = d
                       /\ lastSignal'.results = list
                       /\ NumEq(Len(list), documentProgress[d].total)
                       /\ lastSignal'.failedCount = Failures(list)
                  ELSE documentProgress'[d].results = list]_vars
    /\ [][lastSignal'.n # lastSignal.n =>
              (lastTrack'.n # lastTrack.n /\ lastTrack'.found)]_vars

\* a document of three jobs has emitted its signal with the three outcomes
\* in the order they were tracked, while another record is in progress
C28_Witness ==
    /\ lastSignal.n = 1
    /\ lastSignal.results = <<TRUE, FALSE, TRUE>>
    /\ lastSignal.failedCount = 1
    /\ initTotal[lastSignal.documentId] = Num(3)
    /\ \E d \in DocIds :
           /\ ~documentProgress[d].absent
           /\ documentProgress[d].results = <<FALSE>>

\* C29 (SpecStop): while the running flag of a worker is false and stays
\* false, its queue never gets shorter.  A stopWorkers call that had to
\* wait, with no worker restarted since the call, ends by the deadline and
\* never by a poll that finds the queues empty.
C29_StoppedQueueNeverDrains ==
    /\ [][(~isJobWorkerRunning /\ ~isJobWorkerRunning') =>
              Len(jobQueue') >= Len(jobQueue)]_vars
    /\ [][(~isNotificationWorkerRunning /\ ~isNotificationWorkerRunning') =>
              Len(notificationQueue') >= Len(notificationQueue)]_vars
    /\ [][(stop.pc = "waiting" /\ stop'.pc # "waiting"
             /\ lastRestart.lastStart < stop.calledAt) =>
              /\ lastStop'.how = "timeout"
              /\ lastStop'.waited = SHUTDOWN_TIMEOUT
              /\ lastStop'.remaining > 0]_vars

\* no worker ever crashed or was restarted; the call was made with a
\* notification queued, the notification loop ended without taking it, and
\* the call returned at the deadline with the notification still queued
C29_Witness ==
    /\ crashes = 0
    /\ readyCount = 1
    /\ lastStop.how = "timeout"
    /\ lastStop.remaining = 1
    /\ notificationQueue # <<>>
    /\ jobQueue = <<>>
    /\ notifLoops = EmptyBag
    /\ dequeuedNotifs = <<>>

\* the loop invocations that hold a job whose outcome is not tracked yet
Untracked == {l \in Executing : l.pc # "paceCreate"}
\* job is held, after this step, by no loop that has yet to track it
TrackedAfter(job) ==
    \A l2 \in BagToSet(jobLoops') : l2.job = job => l2.pc = "paceCreate"

\* C30 (SpecLife): a loop invocation that holds a dequeued job gives it
\* up, and so can take the next job, only in a step that calls
\* trackJobCompletion once, for the document of that job; trackJobCompletion
\* is called by no other step, and no job is dequeued twice: each dequeued
\* job is tracked at most once, before the loop that holds it dequeues
\* again, and the jobs dequeued are those tracked and those still held.
C30_OneTrackPerDequeuedJob ==
    /\ [][\A l \in Untracked :
              TrackedAfter(l.job) =>
                  /\ lastTrack'.n = lastTrack.n + 1
                  /\ lastTrack'.documentId = l.job.documentId
                  /\ lastDone'.id = l.job.id]_vars
    /\ [][lastTrack'.n # lastTrack.n =>
              /\ lastTrack'.n = lastTrack.n + 1
              /\ \E l \in Untracked :
                     lastDone'.id = l.job.id /\ TrackedAfter(l.job)]_vars
    /\ [][Len(dequeuedJobs') > Len(dequeuedJobs) =>
              /\ Len(dequeuedJobs') = Len(dequeuedJobs) + 1
              /\ Cardinality(Untracked')
                     = Cardinality(Untracked) + 1
                           - (IF lastTrack'.n # lastTrack.n THEN 1 ELSE 0)]_vars
    /\ [](\A i, j \in 1..Len(dequeuedJobs) :
              dequeuedJobs[i] = dequeuedJobs[j] => i = j)
    /\ [](lastTrack.n + Cardinality(Untracked) = Len(dequeuedJobs))

\* an add_to_group job and then a create_group job were dequeued and each
\* was tracked once
C30_Witness ==
    /\ dequeuedJobs = <<1, 2>>
    /\ lastTrack.n = 2
    /\ lastDone.n = 2
    /\ lastDone.type = "create_group"
    /\ docKind[1] = "boleta"
    /\ tracksSinceInit[1] = 1
    /\ tracksSinceInit[2] = 1

\* C31 (SpecQM): a document whose total is smaller than
\* DOCUMENT_FAIL_THRESHOLD is never signalled failed: the signal emitted for
\* it is "document:ready-to-notify", also when every one of its tracked
\* outcomes is a failure, and no "document:failed" signal is counted for it.
C31_SmallDocumentNeverFailed ==
    /\ [][lastSignal'.n # lastSignal.n =>
              LET d == lastSignal'.documentId
              IN  documentProgress[d].total < Num(DOCUMENT_FAIL_THRESHOLD) =>
                      /\ lastSignal'.kind = "document:ready-to-notify"
                      /\ totalFailed' = totalFailed
                      /\ totalCompleted' = totalCompleted + 1]_vars
    /\ [](\A d \in DocIds :
              initTotal[d] < Num(DOCUMENT_FAIL_THRESHOLD) => emitted[d].failed = 0)

\* a document of two jobs, both failed, was signalled completed
C31_Witness ==
    /\ lastSignal.kind = "document:ready-to-notify"
    /\ lastSignal.results = <<FALSE, FALSE>>
    /\ initTotal[lastSignal.documentId] = Num(2)
    /\ emitted[lastSignal.documentId] = [completed |-> 1, failed |-> 0]
    /\ totalFailed = 0

\* C32 (SpecQM): totalCompleted is the number of "document:ready-to-notify"
\* signals emitted so far and totalFailed the number of "document:failed"
\* signals; neither counter ever decreases; a call that finalises a document
\* (removes its record) raises exactly one of them, by exactly one, the one
\* of the signal it emits, and no other step changes them.
C32_TotalsCountSignals ==
    /\ [](/\ totalCompleted = emittedCount.completed
          /\ totalFailed = emittedCount.failed)
    /\ [][totalCompleted' >= totalCompleted /\ totalFailed' >= totalFailed]_vars
    /\ [][\A d \in DocIds :
              (HasProgress(d) /\ documentProgress'[d].absent) =>
                  /\ lastSignal'.n = lastSignal.n + 1
                  /\ lastSignal'.documentId = d
                  /\ IF lastSignal'.kind = "document:failed"
                     THEN /\ totalFailed' = totalFailed + 1
                          /\ totalCompleted' = totalCompleted
                     ELSE /\ totalCompleted' = totalCompleted + 1
                          /\ totalFailed' = totalFailed]_vars
    /\ [][<<totalCompleted, totalFailed>>' # <<totalCompleted, totalFailed>> =>
              \E d \in DocIds : HasProgress(d) /\ documentProgress'[d].absent]_vars

\* two documents were finalised, one failed and one completed
C32_Witness ==
    /\ totalCompleted = 1
    /\ totalFailed = 1
    /\ emittedCount = [completed |-> 1, failed |-> 1]
    /\ lastSignal.n = 2

\* C33 (SpecTrack): a trackJobCompletion call for document d leaves the
\* records of all other documents, the job queue and the notification queue
\* as they were; the totals change only when the call removes the record of
\* d; a record of d that stays is the record of d before the call with
\* completed raised by one and failedCount raised by one for a failure, so
\* the counts of d do not depend on calls made for other documents.
C33_TrackTouchesOnlyItsDocument ==
    [][lastTrack'.n # lastTrack.n =>
          LET d == lastTrack'.documentId
              old == documentProgress[d]
              new == documentProgress'[d]
          IN  /\ \A e \in DocIds \ {d} : documentProgress'[e] = documentProgress[e]
              /\ jobQueue' = jobQueue
              /\ notificationQueue' = notificationQueue
              /\ <<totalCompleted, totalFailed>>' # <<totalCompleted, totalFailed>>
                     => (~old.absent /\ new.absent)
              /\ (~old.absent /\ ~new.absent) =>
                     /\ new.total = old.total
                     /\ new.completed = old.completed + 1
                     /\ new.failedCount = old.failedCount
                            + (IF lastTrack'.success THEN 0 ELSE 1)]_vars

\* document 2 was finalised while document 1 kept its record with one
\* failure, jobs of both documents are queued alternately and a
\* notification is queued
C33_Witness ==
    /\ Len(jobQueue) = 2
    /\ jobQueue[1].documentId # jobQueue[2].documentId
    /\ notificationQueue # <<>>
    /\ lastTrack.documentId = 2
    /\ lastTrack.found
    /\ lastSignal.documentId = 2
    /\ documentProgress[2].absent
    /\ ~documentProgress[1].absent
    /\ documentProgress[1].completed = 1
    /\ documentProgress[1].failedCount = 1

\* C34 (SpecPacer): for a range [min, max] of non-negative integers with
\* min <= max the wait computed by randomDelay is an integer d with
\* min <= d <= max; delayFromRange given an array of two elements computes
\* its wait that way, and given anything else waits the given value itself.
C34_PacerWaitWithinRange ==
    lastDelay.via # "none" =>
        LET r == lastDelay.range
            pair == r.kind = "array" /\ Len(r.items) = 2
        IN  /\ pair =>
                   /\ lastDelay.random
                   /\ lastDelay.timer.kind = "number"
                   /\ lastDelay.timer.ms \in Int
                   /\ \E k \in RandomDraws :
                          lastDelay.timer.ms = randomDelay(r.items[1], r.items[2], k)
                   /\ (0 <= r.items[1] /\ r.items[1] <= r.items[2]) =>
                          /\ r.items[1] <= lastDelay.timer.ms
                          /\ lastDelay.timer.ms <= r.items[2]
            /\ ~pair =>
                   /\ lastDelay.via = "delayFromRange"
                   /\ ~lastDelay.random
                   /\ lastDelay.timer = r

\* delayFromRange([1, 4]) computed the wait 4, the upper end of the range
C34_Witness ==
    /\ lastDelay.via = "delayFromRange"
    /\ lastDelay.range = Arr(<<1, 4>>)
    /\ lastDelay.random
    /\ lastDelay.timer = Number(4)

=============================================================================
